---- MODULE Spec2Model ----
(***************************************************************************)
(* State-machine model of sharepointeasy's resilient request/transfer      *)
(* layer: the token cache (_get_token), the retrying request               *)
(* (_request_with_retry / async _request), the single-shot and session     *)
(* uploads (upload, _upload_simple, _upload_large) and the semaphore-      *)
(* bounded asyncio batch operations (download_batch, upload_batch,         *)
(* batch_create_items, batch_update_items, batch_delete_items).            *)
(*                                                                         *)
(* One module, several specifications over the same variables:             *)
(*   SpecToken   callers of _get_token on one client instance              *)
(*   SpecRetry   one call of the retrying request                          *)
(*   SpecUpload  one call of upload                                        *)
(*   SpecBatch   one call of an async batch operation                      *)
(*   SpecBatchFair    the same on a running event loop                     *)
(*   SpecSyncBatch    one call of a sync batch transfer                    *)
(*   SpecDownload     one call of download / download_by_id                *)
(*   SpecTransfer     one call of upload or of download                    *)
(*   SpecDelete       batch_delete_items on both clients                   *)
(*   SpecFolders      create_folder, create_folder_recursive               *)
(*   SpecPages        one call of list_all_items                           *)
(*   SpecConstructor  one call of the constructor                          *)
(* Each specification moves its own group of variables and leaves the      *)
(* other groups at their initial values.                                   *)
(***************************************************************************)
EXTENDS Integers, Sequences, FiniteSets, TLC

VARIABLES
    \* ---- the client object (client.py 58-73, async_client.py 54-69)
    client_kind,        \* "sync" (SharePointClient) or "async" (AsyncSharePointClient)
    max_retries,        \* self.max_retries
    retry_delay,        \* self.retry_delay (whole seconds)
    has_client,         \* async: self._client is set (inside 'async with')
    _access_token,      \* self._access_token
    _token_expires_at,  \* self._token_expires_at
    now,                \* time.time(), in seconds since construction
    \* ---- callers of _get_token (threads of a sync client, tasks of an async one)
    tk_pc,              \* position of each caller inside _get_token
    tk_res,             \* the exchange result a caller holds between lines 93 and 101
    tk_ret,             \* what the call returned
    tk_out,             \* how the call ended: "none", "return", "AuthenticationError"
    tk_msg,             \* the error text the raised AuthenticationError carries
    tk_exch,            \* exchanges issued by the caller's current call
    \* ---- one call of the retrying request
    rq_pc,              \* "idle", "loop", "done"
    rq_attempt,         \* the loop variable 'attempt'
    rq_last_exception,  \* attempt whose exception 'last_exception' holds, -1 for None
    rq_hist,            \* status received by each attempt so far (0: transport error)
    rq_sleeps,          \* the delays slept so far, in order
    rq_retry_after,     \* Retry-After header received by each attempt so far
    rq_result,          \* how the call ended
    \* ---- one batch operation, or one direct call of upload
    batch_op,           \* the operation: "upload" (a direct call) or a batch method
    batch_n,            \* number of units: len(files), len(items)
    max_concurrent,     \* the max_concurrent argument
    batch_cb,           \* a batch progress_callback was passed
    sem,                \* asyncio.Semaphore: permits left
    completed,          \* the nonlocal counter 'completed'
    bt_progress,        \* batch progress_callback invocations, in order
    gather_pc,          \* the batch call: "none", "awaiting", "returned", "raised"
    first_failed,       \* unit whose exception asyncio.gather propagates, 0: none
    batch_result,       \* what the batch call returned
    \* ---- the units (tasks) of the batch; unit 1 is the direct call
    u_pc,               \* position of each unit
    u_attempt,          \* 'attempt' of the unit's _request call
    u_last_exception,   \* 'last_exception' of the unit's _request call
    u_err,              \* exception the unit ended with, "none" otherwise
    u_ret,              \* value the unit returned
    \* ---- the upload a unit performs
    up_size,            \* file_size = len(content)
    up_cb,              \* a per-file progress_callback was passed
    up_path,            \* "none", "simple" (_upload_simple) or "session" (_upload_large)
    up_url,             \* the local 'upload_url', 0 before the session exists
    up_uploaded,        \* the local 'uploaded'
    up_puts,            \* chunk PUTs sent so far, in order
    up_acked,           \* chunk PUTs answered with success
    up_chunk_status,    \* answer to the last chunk PUT: 0 none yet, -1 transport error
    up_progress,        \* per-file progress_callback invocations, in order
    next_url,           \* server side: upload URLs issued so far
    \* ---- one call of download / download_by_id
    dl_pc,              \* "none", "ready", "get", "streaming", "done"
    dl_method,          \* "download" or "download_by_id"
    dl_cb,              \* a progress_callback was passed
    dl_header,          \* the response's Content-Length header, -1 when absent
    dl_size,            \* server side: length of the body the response delivers
    dl_sent,            \* server side: bytes of the body delivered so far
    dl_total_size,      \* the local 'total_size'
    dl_downloaded,      \* the local 'downloaded'
    dl_file,            \* bytes written to the destination file
    dl_chunks,          \* chunks received from iter_bytes
    dl_progress,        \* progress_callback invocations, in order
    dl_gets,            \* GET requests the call has issued
    dl_result,          \* how the call ended
    \* ---- batch_delete_items on a sync and on an async client, same server
    di_answers,         \* what _request gives for the DELETE of each item
    di_pc,              \* per client: "none", "running", "done"
    di_items,           \* per client: how delete_item ended for each item so far
    di_result,          \* per client: how batch_delete_items ended
    \* ---- create_folder called twice, or one call of create_folder_recursive
    fd_op,              \* "none", "create_folder", "create_folder_recursive"
    fd_path,            \* folder_path: number of parts of the path "f1/f2/.."
    fd_server,          \* server side: the folders "f1", "f1/f2", .. that exist
    fd_pc,              \* "none", "ready", "done"
    fd_calls,           \* the calls of create_folder made so far, in order
    fd_result,          \* create_folder_recursive: the local 'result', 0 for None
    fd_out,             \* how create_folder_recursive ended
    \* ---- one call of list_all_items
    pg_pages,           \* server side: the pages of the list, in cursor order
    pg_pc,              \* "none", "loop", "done"
    pg_url,             \* the local 'url': the page it points to, 0 for None
    pg_requests,        \* the pages requested so far, in order
    all_items,          \* the local 'all_items'
    pg_out,             \* how the call ended
    \* ---- one call of the constructor
    ct_pc,              \* "none", "ready", "done"
    ct_params,          \* the arguments client_id, client_secret, tenant_id
    ct_env,             \* os.getenv of the three MICROSOFT_* variables
    ct_self,            \* the attributes of the object the caller gets
    ct_out              \* how the call ended

tokVars == <<_access_token, _token_expires_at, now>>
cfgVars == <<client_kind, max_retries, retry_delay, has_client>>
tkVars  == <<tk_pc, tk_res, tk_ret, tk_out, tk_msg, tk_exch>>
rqVars  == <<rq_pc, rq_attempt, rq_last_exception, rq_hist, rq_sleeps,
             rq_retry_after, rq_result>>
btVars  == <<batch_op, batch_n, max_concurrent, batch_cb, sem, completed,
             bt_progress, gather_pc, first_failed, batch_result>>
uVars   == <<u_pc, u_attempt, u_last_exception, u_err, u_ret>>
upVars  == <<up_size, up_cb, up_path, up_url, up_uploaded, up_puts, up_acked,
             up_chunk_status, up_progress, next_url>>
dlVars  == <<dl_pc, dl_method, dl_cb, dl_header, dl_size, dl_sent,
             dl_total_size, dl_downloaded, dl_file, dl_chunks, dl_progress,
             dl_gets, dl_result>>
diVars  == <<di_answers, di_pc, di_items, di_result>>
fdVars  == <<fd_op, fd_path, fd_server, fd_pc, fd_calls, fd_result, fd_out>>
pgVars  == <<pg_pages, pg_pc, pg_url, pg_requests, all_items, pg_out>>
ctVars  == <<ct_pc, ct_params, ct_env, ct_self, ct_out>>
opVars  == <<dlVars, diVars, fdVars, pgVars, ctVars>>
vars    == <<cfgVars, tokVars, tkVars, rqVars, btVars, uVars, upVars, opVars>>

(***************************************************************************)
(* Bounds of the model.                                                    *)
(***************************************************************************)
NumThreads == 2          \* concurrent callers of _get_token
MaxTicks == 5            \* clock ticks the token specification lets pass
MaxRetriesBound == 3     \* max_retries ranges over 1..MaxRetriesBound
NumUnits == 3            \* units of a batch operation: 0..NumUnits
NumUploads == 2          \* files of an upload_batch: 0..NumUploads
MaxConcurrentBound == 2  \* max_concurrent ranges over 1..MaxConcurrentBound
MaxDepth == 3            \* parts of a folder path: 1..MaxDepth
MaxPages == 3            \* pages of a list: 1..MaxPages

(***************************************************************************)
(* Program constants.                                                      *)
(***************************************************************************)
TOKEN_MARGIN == 300          \* client.py 89: the 5 minute safety margin
DEFAULT_EXPIRES_IN == 3600   \* client.py 101: result.get("expires_in", 3600)
DEFAULT_MAX_RETRIES == 3    \* client.py 42: max_retries: int = 3
DEFAULT_RETRY_DELAY == 1    \* client.py 43: retry_delay: float = 1.0
TickSteps == {100}           \* seconds a clock tick of the token specification adds

Threads == 1..NumThreads
Units == 1..NumUnits
Min(a, b) == IF a <= b THEN a ELSE b
Pow2(n) == 2 ^ n

(***************************************************************************)
(* Token cache: _get_token (client.py 86-102, async_client.py 82-96).      *)
(***************************************************************************)
NoToken == "None"
Tokens == {"tokA", "tokB"}
NoExpiresIn == -1
ExpiresIns == {NoExpiresIn, 400, 302}

\* What app.acquire_token_for_client returns: a dict with or without
\* "access_token", with or without "expires_in", and, when the exchange
\* failed, with or without "error_description" and "error".
NoText == "absent"
UnknownError == "Erro desconhecido"
ExchangeFailure ==
    [ok |-> FALSE, access_token |-> NoToken, expires_in |-> NoExpiresIn,
     error_description |-> NoText, error |-> NoText]
ExchangeFailures ==
    [ok : {FALSE}, access_token : {NoToken}, expires_in : {NoExpiresIn},
     error_description : {NoText, "AADSTS7000215: invalid client secret"},
     error : {NoText, "invalid_client"}]
ExchangeResults ==
    [ok : {TRUE}, access_token : Tokens, expires_in : ExpiresIns,
     error_description : {NoText}, error : {NoText}]
    \cup ExchangeFailures

\* Variant of ErrorDescription: the short error code is preferred.
ErrorDescriptionPrefersCode(res) ==
    IF res.error # NoText THEN res.error
    ELSE IF res.error_description # NoText THEN res.error_description
    ELSE UnknownError

\* client.py 96: result.get("error_description", result.get("error",
\* "Erro desconhecido"))
ErrorDescription(res) ==
    IF res.error_description # NoText THEN res.error_description
    ELSE IF res.error # NoText THEN res.error
    ELSE UnknownError

\* Variant of TokenValid: the safety margin is forgotten.
TokenValidNoMargin(tok, exp, t) ==
    tok # NoToken /\ t < exp

\* client.py 89: self._access_token and time.time() < self._token_expires_at - 300
TokenValid(tok, exp, t) ==
    tok # NoToken /\ t < exp - TOKEN_MARGIN

\* client.py 95: "access_token" not in result
ExchangeOk(res) == res.ok

\* client.py 101: time.time() + result.get("expires_in", 3600)
ExpiresAt(t, expires_in) ==
    t + (IF expires_in = NoExpiresIn THEN DEFAULT_EXPIRES_IN ELSE expires_in)

\* One uninterrupted call of _get_token, as the event loop runs it (the async
\* client's _get_token has no await) and as a single thread runs it.
_get_token(tok, exp, t, res) ==
    IF TokenValid(tok, exp, t)
    THEN [raised |-> FALSE, token |-> tok, access_token |-> tok,
          expires_at |-> exp, exchanged |-> FALSE]
    ELSE IF ~ExchangeOk(res)
    THEN [raised |-> TRUE, token |-> NoToken, access_token |-> tok,
          expires_at |-> exp, exchanged |-> TRUE]
    ELSE [raised |-> FALSE, token |-> res.access_token,
          access_token |-> res.access_token,
          expires_at |-> ExpiresAt(t, res.expires_in), exchanged |-> TRUE]

\* __init__ (client.py 58-73): no token, expiry 0.
InitCache ==
    /\ _access_token = NoToken
    /\ _token_expires_at = 0
    /\ now = 0

\* A client built with the default max_retries and retry_delay; the async
\* client is used inside 'async with' (__aenter__, async_client.py 105-108).
InitClient ==
    /\ client_kind \in {"sync", "async"}
    /\ max_retries = DEFAULT_MAX_RETRIES
    /\ retry_delay = DEFAULT_RETRY_DELAY
    /\ has_client = (client_kind = "async")
    /\ InitCache

IdleToken ==
    /\ tk_pc = [t \in Threads |-> "idle"]
    /\ tk_res = [t \in Threads |-> ExchangeFailure]
    /\ tk_ret = [t \in Threads |-> NoToken]
    /\ tk_out = [t \in Threads |-> "none"]
    /\ tk_msg = [t \in Threads |-> NoText]
    /\ tk_exch = [t \in Threads |-> 0]

\* Python threads interleave inside _get_token; tasks of one event loop do not,
\* because the async client's _get_token never awaits.
MayEnter(t) ==
    client_kind = "async" => \A o \in Threads \ {t} : tk_pc[o] \in {"idle", "done"}

\* Lines 89-93: the validity test, then either the cached token is returned or
\* the exchange is issued (the caller blocks in acquire_token_for_client).
GetTokenCall(t) ==
    /\ tk_pc[t] = "idle"
    /\ MayEnter(t)
    /\ IF TokenValid(_access_token, _token_expires_at, now)
       THEN /\ tk_pc' = [tk_pc EXCEPT ![t] = "done"]
            /\ tk_ret' = [tk_ret EXCEPT ![t] = _access_token]
            /\ tk_out' = [tk_out EXCEPT ![t] = "return"]
            /\ tk_exch' = [tk_exch EXCEPT ![t] = 0]
       ELSE /\ tk_pc' = [tk_pc EXCEPT ![t] = "exchanging"]
            /\ tk_ret' = [tk_ret EXCEPT ![t] = NoToken]
            /\ tk_out' = [tk_out EXCEPT ![t] = "none"]
            /\ tk_exch' = [tk_exch EXCEPT ![t] = 1]
    /\ UNCHANGED <<tk_res, tk_msg, cfgVars, opVars, tokVars, rqVars, btVars, uVars, upVars>>

\* Lines 93-99: the exchange returns; without "access_token" the call raises
\* AuthenticationError, otherwise self._access_token is assigned.
ExchangeReturn(t) ==
    /\ tk_pc[t] = "exchanging"
    /\ \E res \in ExchangeResults :
         IF ~ExchangeOk(res)
         THEN /\ tk_pc' = [tk_pc EXCEPT ![t] = "done"]
              /\ tk_out' = [tk_out EXCEPT ![t] = "AuthenticationError"]
              /\ tk_msg' = [tk_msg EXCEPT ![t] = ErrorDescription(res)]
              /\ tk_res' = [tk_res EXCEPT ![t] = res]
              /\ UNCHANGED _access_token
         ELSE /\ tk_pc' = [tk_pc EXCEPT ![t] = "storing"]
              /\ _access_token' = res.access_token
              /\ tk_res' = [tk_res EXCEPT ![t] = res]
              /\ UNCHANGED <<tk_out, tk_msg>>
    /\ UNCHANGED <<_token_expires_at, now, tk_ret, tk_exch, cfgVars, opVars, rqVars, btVars, uVars, upVars>>

\* Lines 101-102: self._token_expires_at is assigned and self._access_token
\* is read back and returned.
StoreExpiry(t) ==
    /\ tk_pc[t] = "storing"
    /\ _token_expires_at' = ExpiresAt(now, tk_res[t].expires_in)
    /\ tk_pc' = [tk_pc EXCEPT ![t] = "done"]
    /\ tk_ret' = [tk_ret EXCEPT ![t] = _access_token]
    /\ tk_out' = [tk_out EXCEPT ![t] = "return"]
    /\ tk_res' = [tk_res EXCEPT ![t] = ExchangeFailure]
    /\ UNCHANGED <<_access_token, now, tk_exch, tk_msg, cfgVars, opVars, rqVars, btVars, uVars, upVars>>

\* The caller goes on and may call _get_token again (_get_headers is called
\* for every request).
CallerContinues(t) ==
    /\ tk_pc[t] = "done"
    /\ tk_pc' = [tk_pc EXCEPT ![t] = "idle"]
    /\ tk_ret' = [tk_ret EXCEPT ![t] = NoToken]
    /\ tk_out' = [tk_out EXCEPT ![t] = "none"]
    /\ tk_exch' = [tk_exch EXCEPT ![t] = 0]
    /\ tk_msg' = [tk_msg EXCEPT ![t] = NoText]
    /\ tk_res' = [tk_res EXCEPT ![t] = ExchangeFailure]
    /\ UNCHANGED <<cfgVars, opVars, tokVars, rqVars, btVars, uVars, upVars>>

\* time.time() advances.
Tick ==
    /\ \E d \in TickSteps :
         /\ now + d <= MaxTicks * d
         /\ now' = now + d
    /\ UNCHANGED <<_access_token, _token_expires_at, cfgVars, opVars, tkVars, rqVars, btVars, uVars, upVars>>


(***************************************************************************)
(* The retrying request: SharePointClient._request_with_retry              *)
(* (client.py 111-144) and AsyncSharePointClient._request                  *)
(* (async_client.py 116-153).                                              *)
(***************************************************************************)
Statuses == {200, 302, 401, 404, 409, 429, 503}

\* The Retry-After header of a response: absent, a number of seconds, or an
\* HTTP-date (RFC 9110 allows both forms).
NoRetryAfter == [kind |-> "absent", secs |-> 0]
DateRetryAfter == [kind |-> "date", secs |-> 0]
RetryAfterHeaders ==
    {NoRetryAfter, DateRetryAfter} \cup [kind : {"secs"}, secs : {0, 5}]

\* What one client.request(...) gives: a response, or an httpx.HTTPError
\* (connection error, timeout).
TransportError == [kind |-> "error", status |-> 0, retry_after |-> NoRetryAfter]
Outcomes ==
    {[kind |-> "response", status |-> st, retry_after |-> NoRetryAfter] :
        st \in {s \in Statuses : ~(s = 429 \/ s >= 500)}}
    \cup [kind : {"response"}, status : {s \in Statuses : s = 429 \/ s >= 500},
          retry_after : RetryAfterHeaders]
    \cup {TransportError}

\* Variant of RetryableStatus: every error status is retried.
RetryableStatusAnyError(status) == status >= 400

\* client.py 130: response.status_code == 429 or response.status_code >= 500
RetryableStatus(status) == status = 429 \/ status >= 500

\* client.py 131: int(response.headers.get("Retry-After", self.retry_delay));
\* int() of an HTTP-date raises ValueError.
RetryAfterParses(h) == h.kind # "date"
RetryAfterSeconds(h, delay) == IF h.kind = "absent" THEN delay ELSE h.secs

\* Variant of BackoffDelay: the delay does not grow with the attempt.
BackoffDelayFlat(delay, attempt) == delay

\* client.py 138: time.sleep(self.retry_delay * (2 ** attempt))
BackoffDelay(delay, attempt) == delay * Pow2(attempt)

\* One iteration of 'for attempt in range(self.max_retries)' (client.py
\* 120-140) once the headers are built: what the iteration does next, how long
\* it sleeps first, and whether it records the exception in last_exception.
RetryIteration(attempt, o, retries, delay) ==
    IF o.kind = "error"
    THEN IF attempt < retries - 1
         THEN [next |-> "continue", sleep |-> BackoffDelay(delay, attempt),
               exc |-> "HTTPError", records |-> TRUE]
         ELSE [next |-> "raise", sleep |-> -1,
               exc |-> "HTTPError", records |-> TRUE]
    ELSE IF RetryableStatus(o.status)
    THEN IF RetryAfterParses(o.retry_after)
         THEN [next |-> "continue",
               sleep |-> RetryAfterSeconds(o.retry_after, delay) * Pow2(attempt),
               exc |-> "none", records |-> FALSE]
         ELSE [next |-> "raise", sleep |-> -1,
               exc |-> "ValueError", records |-> FALSE]
    ELSE [next |-> "return", sleep |-> -1, exc |-> "none", records |-> FALSE]

\* client.py 142-144: after the loop, last_exception is raised when set and
\* RuntimeError otherwise.
AfterLoop(last_exception) ==
    IF last_exception # -1
    THEN [kind |-> "raise", status |-> 0, exc |-> "HTTPError",
          exc_attempt |-> last_exception]
    ELSE [kind |-> "raise", status |-> 0, exc |-> "RuntimeError",
          exc_attempt |-> -1]

NoResult == [kind |-> "none", status |-> 0, exc |-> "none", exc_attempt |-> -1]

\* A client built with any max_retries and retry_delay; the async client may
\* be used outside 'async with'.
InitRetryClient ==
    /\ client_kind \in {"sync", "async"}
    /\ max_retries \in 1..MaxRetriesBound
    /\ retry_delay \in {1, 2}
    /\ has_client \in BOOLEAN
    /\ (client_kind = "sync" => has_client = FALSE)
    /\ InitCache

IdleRetry ==
    /\ rq_pc = "idle"
    /\ rq_attempt = 0
    /\ rq_last_exception = -1
    /\ rq_hist = <<>>
    /\ rq_sleeps = <<>>
    /\ rq_retry_after = <<>>
    /\ rq_result = NoResult

\* The call is made: the async client raises RuntimeError without self._client
\* (async_client.py 123-124); otherwise last_exception = None and the loop starts.
RequestCall ==
    /\ rq_pc = "idle"
    /\ IF client_kind = "async" /\ ~has_client
       THEN /\ rq_pc' = "done"
            /\ rq_result' = [kind |-> "raise", status |-> 0,
                             exc |-> "RuntimeError", exc_attempt |-> -1]
       ELSE /\ rq_pc' = "loop"
            /\ UNCHANGED rq_result
    /\ UNCHANGED <<rq_attempt, rq_last_exception, rq_hist, rq_sleeps,
                   rq_retry_after, cfgVars, opVars, tokVars, tkVars, btVars, uVars, upVars>>

\* One iteration: _get_headers() (which calls _get_token and may raise
\* AuthenticationError, no httpx.HTTPError), the request, and the handling of
\* its outcome including the sleep.
RequestAttempt ==
    /\ rq_pc = "loop"
    /\ rq_attempt < max_retries
    /\ \E res \in ExchangeResults, o \in Outcomes :
         LET tk == _get_token(_access_token, _token_expires_at, now, res)
             it == RetryIteration(rq_attempt, o, max_retries, retry_delay)
         IN  /\ _access_token' = tk.access_token
             /\ _token_expires_at' = tk.expires_at
             /\ IF tk.raised
                THEN /\ rq_pc' = "done"
                     /\ rq_result' = [kind |-> "raise", status |-> 0,
                                      exc |-> "AuthenticationError",
                                      exc_attempt |-> rq_attempt]
                     /\ UNCHANGED <<rq_attempt, rq_last_exception, rq_hist,
                                    rq_sleeps, rq_retry_after, now>>
                ELSE /\ rq_hist' = Append(rq_hist, o.status)
                     /\ rq_retry_after' = Append(rq_retry_after, o.retry_after)
                     /\ rq_last_exception' =
                            IF it.records THEN rq_attempt ELSE rq_last_exception
                     /\ IF it.next = "continue"
                        THEN /\ rq_sleeps' = Append(rq_sleeps, it.sleep)
                             /\ now' = now + it.sleep
                             /\ rq_attempt' = rq_attempt + 1
                             /\ UNCHANGED <<rq_pc, rq_result>>
                        ELSE /\ rq_pc' = "done"
                             /\ rq_result' =
                                    IF it.next = "return"
                                    THEN [kind |-> "response", status |-> o.status,
                                          exc |-> "none", exc_attempt |-> -1]
                                    ELSE [kind |-> "raise", status |-> 0,
                                          exc |-> it.exc, exc_attempt |-> rq_attempt]
                             /\ UNCHANGED <<rq_attempt, rq_sleeps, now>>
    /\ UNCHANGED <<cfgVars, opVars, tkVars, btVars, uVars, upVars>>

\* The loop is exhausted: client.py 142-144.
RequestExhausted ==
    /\ rq_pc = "loop"
    /\ rq_attempt >= max_retries
    /\ rq_pc' = "done"
    /\ rq_result' = AfterLoop(rq_last_exception)
    /\ UNCHANGED <<rq_attempt, rq_last_exception, rq_hist, rq_sleeps,
                   rq_retry_after, cfgVars, opVars, tokVars, tkVars, btVars, uVars, upVars>>


(***************************************************************************)
(* Units of work.  A unit is one task of an async batch operation          *)
(* (download_one, upload_one, create_one, update_one, delete_one:          *)
(* async_client.py 338-362, 474-490, 834-836, 851-853, 868-870), or the    *)
(* one direct call of upload (client.py 477-520, async_client.py 373-394). *)
(* The clock does not advance in the specifications of this section.       *)
(***************************************************************************)
SIMPLE_UPLOAD_MAX_SIZE == 4 * 1024 * 1024
UPLOAD_CHUNK_SIZE == 10 * 1024 * 1024

BatchOps == {"download_batch", "upload_batch", "batch_create_items",
             "batch_update_items", "batch_delete_items"}
ItemOps == {"batch_create_items", "batch_update_items", "batch_delete_items"}
ProgressOps == {"download_batch", "upload_batch"}
InBatch == batch_op \in BatchOps

\* Payload sizes of a direct upload, around the two thresholds.
Sizes == {0, 1, SIMPLE_UPLOAD_MAX_SIZE, SIMPLE_UPLOAD_MAX_SIZE + 1,
          UPLOAD_CHUNK_SIZE - 1, UPLOAD_CHUNK_SIZE, UPLOAD_CHUNK_SIZE + 1,
          2 * UPLOAD_CHUNK_SIZE, 25 * 1024 * 1024}
\* Payload sizes of the files of an upload_batch.
BatchSizes == {SIMPLE_UPLOAD_MAX_SIZE, 2 * UPLOAD_CHUNK_SIZE}

\* Inputs of a unit's requests.
UnitExchangeResults ==
    {[ok |-> TRUE, access_token |-> "tokA", expires_in |-> NoExpiresIn,
      error_description |-> NoText, error |-> NoText],
     ExchangeFailure}
UnitOutcomes ==
    {[kind |-> "response", status |-> st, retry_after |-> NoRetryAfter] :
        st \in {200, 204, 404, 503}}
    \cup {TransportError}

\* Answers to a request sent outside the retrying request, on an httpx client
\* of its own: the download GET and the upload PUTs.
DirectOutcomes ==
    UnitOutcomes \cup
    {[kind |-> "response", status |-> 429, retry_after |-> NoRetryAfter]}

\* Variant of IsSuccess: only server errors count as failures.
IsSuccessBelow500(status) == status < 500

\* response.raise_for_status() raises httpx.HTTPStatusError unless 2xx.
IsSuccess(status) == 200 <= status /\ status <= 299

\* The except clause around a unit's operation: upload (client.py 519-520)
\* and create_item, update_item, delete_item (async_client.py 784-785,
\* 801-802, 821-822) catch httpx.HTTPError; download_one catches nothing.
Wrapped(op, exc) ==
    IF exc \in {"HTTPError", "HTTPStatusError"}
    THEN IF op \in {"upload", "upload_batch"} THEN "UploadError"
         ELSE IF op \in ItemOps THEN "ListError"
         ELSE exc
    ELSE exc

\* Variant of UseSimpleUpload: a payload of exactly the threshold goes to a session.
UseSimpleUploadStrict(file_size) == file_size < SIMPLE_UPLOAD_MAX_SIZE

\* upload (client.py 511): file_size <= self.SIMPLE_UPLOAD_MAX_SIZE
UseSimpleUpload(file_size) == file_size <= SIMPLE_UPLOAD_MAX_SIZE

\* Variant of ChunkStart: the previous chunk_end is taken as inclusive.
ChunkStartSkipsByte(uploaded) == IF uploaded = 0 THEN 0 ELSE uploaded + 1

\* Variant of ChunkEnd: the end is not clamped to the payload size.
ChunkEndUnclamped(uploaded, total_size) == uploaded + UPLOAD_CHUNK_SIZE

\* _upload_large (client.py 569-570): chunk_start and chunk_end
ChunkStart(uploaded) == uploaded
ChunkEnd(uploaded, total_size) == Min(uploaded + UPLOAD_CHUNK_SIZE, total_size)

\* The chunk PUT of client.py 571-578: content[chunk_start:chunk_end] with
\* Content-Range "bytes {chunk_start}-{chunk_end - 1}/{total_size}", to upload_url.
ChunkPut(uploaded, total_size, url) ==
    [start |-> ChunkStart(uploaded),
     end |-> ChunkEnd(uploaded, total_size) - 1,
     total |-> total_size,
     len |-> ChunkEnd(uploaded, total_size) - ChunkStart(uploaded),
     url |-> url]

\* Variant of PutUrl: the URL is kept on the client object, where the session
\* created last overwrites it.
PutUrlShared(own, latest) == latest

\* The URL a chunk is PUT to: the call's own local 'upload_url'
\* (client.py 561, 578), whatever sessions were created since.
PutUrl(own, latest) == own

\* What a batch call returns: a list with one entry per unit, or, for
\* batch_delete_items, a count.
NoBatchResult == [kind |-> "none", items |-> <<>>, count |-> 0]

\* Variant of GatherResults: the results come back in reverse task order.
GatherResultsReversed(n, rets) ==
    [i \in 1..n |-> [unit |-> n + 1 - i, value |-> rets[n + 1 - i]]]

\* await asyncio.gather(*tasks): the tasks' return values, in the order of
\* the tasks, whatever order they finished in.
GatherResults(n, rets) ==
    [i \in 1..n |-> [unit |-> i, value |-> rets[i]]]

\* batch_delete_items (async_client.py 874): sum(1 for r in results if r)
CountTrue(results) ==
    Cardinality({i \in 1..Len(results) : results[i].value = "True"})

IdleBatch ==
    /\ batch_op = "none"
    /\ batch_n = 0
    /\ max_concurrent = 0
    /\ batch_cb = FALSE
    /\ sem = 0
    /\ completed = 0
    /\ bt_progress = <<>>
    /\ gather_pc = "none"
    /\ first_failed = 0
    /\ batch_result = NoBatchResult

IdleUnits ==
    /\ u_pc = [u \in Units |-> "absent"]
    /\ u_attempt = [u \in Units |-> 0]
    /\ u_last_exception = [u \in Units |-> -1]
    /\ u_err = [u \in Units |-> "none"]
    /\ u_ret = [u \in Units |-> "none"]

IdleUploads ==
    /\ up_size = [u \in Units |-> 0]
    /\ up_cb = [u \in Units |-> FALSE]
    /\ up_path = [u \in Units |-> "none"]
    /\ up_url = [u \in Units |-> 0]
    /\ up_uploaded = [u \in Units |-> 0]
    /\ up_puts = [u \in Units |-> <<>>]
    /\ up_acked = [u \in Units |-> 0]
    /\ up_chunk_status = [u \in Units |-> 0]
    /\ up_progress = [u \in Units |-> <<>>]
    /\ next_url = 0

NoCallResult == [kind |-> "none", exc |-> "none"]
Raises(exc) == [kind |-> "raise", exc |-> exc]
Returns == [kind |-> "return", exc |-> "none"]

NoContentLength == -1
IdleDownload ==
    /\ dl_pc = "none"
    /\ dl_method = "download"
    /\ dl_cb = FALSE
    /\ dl_header = NoContentLength
    /\ dl_size = 0
    /\ dl_sent = 0
    /\ dl_total_size = 0
    /\ dl_downloaded = 0
    /\ dl_file = 0
    /\ dl_chunks = 0
    /\ dl_progress = <<>>
    /\ dl_gets = 0
    /\ dl_result = NoCallResult

Clients == {"sync", "async"}
NoDeleteResult == [kind |-> "none", exc |-> "none", count |-> 0]
IdleDelete ==
    /\ di_answers = <<>>
    /\ di_pc = [k \in Clients |-> "none"]
    /\ di_items = [k \in Clients |-> <<>>]
    /\ di_result = [k \in Clients |-> NoDeleteResult]

NoFolderResult == [kind |-> "none", exc |-> "none", meta |-> 0]
IdleFolders ==
    /\ fd_op = "none"
    /\ fd_path = 0
    /\ fd_server = 0
    /\ fd_pc = "none"
    /\ fd_calls = <<>>
    /\ fd_result = 0
    /\ fd_out = NoFolderResult

IdlePages ==
    /\ pg_pages = <<>>
    /\ pg_pc = "none"
    /\ pg_url = 0
    /\ pg_requests = <<>>
    /\ all_items = <<>>
    /\ pg_out = NoCallResult

Credentials == {"client_id", "client_secret", "tenant_id"}
None == "None"
NoClient == [f \in Credentials |-> None]
IdleConstructor ==
    /\ ct_pc = "none"
    /\ ct_params = NoClient
    /\ ct_env = NoClient
    /\ ct_self = NoClient
    /\ ct_out = NoCallResult

IdleOps ==
    IdleDownload /\ IdleDelete /\ IdleFolders /\ IdlePages /\ IdleConstructor

\* Variant of Release: the permit is not given back.
ReleaseLost(s) == s

\* Variant of Release: the permit is given back twice.
ReleaseTwice(s) == s + 2

\* Leaving 'async with semaphore' gives the permit back (Semaphore.release).
Release(s) == s + 1

\* What no step of a unit changes.
btFixed == <<batch_op, batch_n, max_concurrent, batch_cb, gather_pc, batch_result>>
upFixed == <<up_size, up_cb>>

\* The unit ends with exception 'exc' ("none": it returns 'ret'); s is the
\* number of free permits while the unit runs.  In a batch the
\* 'async with semaphore' block is left, which releases the permit on every
\* exit; download_one and upload_one first count the unit and call the batch
\* progress_callback (async_client.py 358-360, 486-488); the first exception
\* of a task is the one asyncio.gather propagates.
FinishUnit(u, exc, ret, s) ==
    /\ u_pc' = [u_pc EXCEPT ![u] = IF exc = "none" THEN "done" ELSE "failed"]
    /\ u_err' = [u_err EXCEPT ![u] = exc]
    /\ u_ret' = [u_ret EXCEPT ![u] = IF exc = "none" THEN ret ELSE "none"]
    /\ sem' = IF InBatch /\ client_kind = "async" THEN Release(s) ELSE s
    /\ IF exc = "none" /\ batch_op \in ProgressOps /\ client_kind = "async"
       THEN /\ completed' = completed + 1
            /\ bt_progress' = IF batch_cb
                              THEN Append(bt_progress,
                                          <<u, completed + 1, batch_n>>)
                              ELSE bt_progress
       ELSE UNCHANGED <<completed, bt_progress>>
    /\ first_failed' = IF InBatch /\ exc # "none" /\ first_failed = 0
                       THEN u ELSE first_failed

\* The unit goes on, suspended at position pc.
SuspendUnit(u, pc, s) ==
    /\ u_pc' = [u_pc EXCEPT ![u] = pc]
    /\ sem' = s
    /\ UNCHANGED <<u_err, u_ret, completed, bt_progress, first_failed>>

\* _get_headers() of a unit: the token cache is read or refreshed.
UnitToken(res) == _get_token(_access_token, _token_expires_at, now, res)
StoreUnitToken(tk) ==
    /\ _access_token' = tk.access_token
    /\ _token_expires_at' = tk.expires_at

\* The unit calls self._request: the async client raises RuntimeError without
\* self._client (async_client.py 123-124), otherwise the first request goes out.
EnterRequest(u, s) ==
    IF client_kind = "async" /\ ~has_client
    THEN /\ FinishUnit(u, "RuntimeError", "none", s)
         /\ UNCHANGED <<u_attempt, u_last_exception>>
    ELSE /\ SuspendUnit(u, "request", s)
         /\ u_attempt' = [u_attempt EXCEPT ![u] = 0]
         /\ u_last_exception' = [u_last_exception EXCEPT ![u] = -1]

\* The body of a unit up to its first request.
\*   download_one (async_client.py 341-350): _get_headers, then the streaming
\*     GET on the unit's own httpx.AsyncClient;
\*   upload (client.py 502-518, async_client.py 382-392): the size decides the
\*     path; _upload_simple builds its headers and sends the single PUT,
\*     _upload_large calls self._request for createUploadSession;
\*   create_item, update_item, delete_item (async_client.py 781, 798, 814)
\*     call self._request.
StartBody(u, s) ==
    IF batch_op = "download_batch"
    THEN /\ \E res \in UnitExchangeResults :
              /\ StoreUnitToken(UnitToken(res))
              /\ IF UnitToken(res).raised
                 THEN FinishUnit(u, "AuthenticationError", "none", s)
                 ELSE SuspendUnit(u, "get", s)
         /\ UNCHANGED <<u_attempt, u_last_exception, up_path>>
    ELSE IF batch_op \in ItemOps
    THEN /\ EnterRequest(u, s)
         /\ UNCHANGED <<_access_token, _token_expires_at, up_path>>
    ELSE IF UseSimpleUpload(up_size[u])
    THEN /\ up_path' = [up_path EXCEPT ![u] = "simple"]
         /\ \E res \in UnitExchangeResults :
              /\ StoreUnitToken(UnitToken(res))
              /\ IF UnitToken(res).raised
                 THEN FinishUnit(u, "AuthenticationError", "none", s)
                 ELSE SuspendUnit(u, "simple_put", s)
         /\ UNCHANGED <<u_attempt, u_last_exception>>
    ELSE /\ up_path' = [up_path EXCEPT ![u] = "session"]
         /\ EnterRequest(u, s)
         /\ UNCHANGED <<_access_token, _token_expires_at>>

\* The HTTP client object a unit's request in flight goes through:
\*   "request": self._client, the one AsyncClient of the
\*     AsyncSharePointClient (async_client.py 128, opened at 107);
\*   "get", "simple_put", "chunk_put": an httpx.AsyncClient opened by the
\*     unit itself in an 'async with' (async_client.py 345, 409, 437), which
\*     closes it on every exit.
\* 0 stands for self._client, u for the client unit u opened.
ClientInUse(u) == IF u_pc[u] = "request" THEN 0 ELSE u

\* 'async with semaphore' (async_client.py 340, 476, 835, 852, 869): a task
\* takes a permit when one is left and runs its body up to the first request.
Acquire(u) ==
    /\ InBatch
    /\ u_pc[u] = "pending"
    /\ sem > 0
    /\ StartBody(u, sem - 1)
    /\ UNCHANGED <<btFixed, upFixed, up_url, up_uploaded, up_puts, up_acked,
                   up_chunk_status, up_progress, next_url, now, cfgVars, opVars,
                   tkVars, rqVars>>

\* A direct call of upload starts.
UploadCall ==
    /\ batch_op = "upload"
    /\ u_pc[1] = "ready"
    /\ StartBody(1, sem)
    /\ UNCHANGED <<btFixed, upFixed, up_url, up_uploaded, up_puts, up_acked,
                   up_chunk_status, up_progress, next_url, now, cfgVars, opVars,
                   tkVars, rqVars>>

\* download (client.py 411-432), which the sync download_batch calls for
\* each file: 404 raises the package's FileNotFoundError, raise_for_status
\* and transport errors are caught as httpx.HTTPError and become DownloadError.
DownloadFailure(o) ==
    IF o.kind = "error" THEN "DownloadError"
    ELSE IF o.status = 404 THEN "FileNotFoundError"
    ELSE IF ~IsSuccess(o.status) THEN "DownloadError"
    ELSE "none"

\* download_one (async_client.py 350-362): the response arrives;
\* raise_for_status, then the body is streamed to the local file.  Nothing
\* here is caught, so httpx errors leave the unit as they are.  The sync
\* download_batch calls self.download instead.
DownloadResponse(u) ==
    /\ batch_op = "download_batch"
    /\ u_pc[u] = "get"
    /\ \E o \in DirectOutcomes :
         IF client_kind = "sync"
         THEN FinishUnit(u, DownloadFailure(o), "path", sem)
         ELSE IF o.kind = "error"
         THEN FinishUnit(u, Wrapped(batch_op, "HTTPError"), "none", sem)
         ELSE IF ~IsSuccess(o.status)
         THEN FinishUnit(u, Wrapped(batch_op, "HTTPStatusError"), "none", sem)
         ELSE FinishUnit(u, "none", "path", sem)
    /\ UNCHANGED <<btFixed, u_attempt, u_last_exception, cfgVars, opVars, tokVars,
                   tkVars, rqVars, upVars>>

\* _upload_simple (client.py 535-538): the PUT is answered.
SimpleResponse(u) ==
    /\ u_pc[u] = "simple_put"
    /\ \E o \in DirectOutcomes :
         IF o.kind = "error"
         THEN FinishUnit(u, Wrapped(batch_op, "HTTPError"), "none", sem)
         ELSE IF ~IsSuccess(o.status)
         THEN FinishUnit(u, Wrapped(batch_op, "HTTPStatusError"), "none", sem)
         ELSE FinishUnit(u, "none", "item", sem)
    /\ UNCHANGED <<btFixed, u_attempt, u_last_exception, cfgVars, opVars, tokVars,
                   tkVars, rqVars, upVars>>

\* _upload_large (client.py 568-578, 585): the loop test with 'uploaded' bytes
\* sent; either the next chunk is PUT to upload_url, or the loop is over and
\* the last response's JSON is returned.
ChunkLoop(u, uploaded, url) ==
    IF uploaded < up_size[u]
    THEN /\ up_puts' = [up_puts EXCEPT ![u] =
                Append(@, ChunkPut(uploaded, up_size[u], url))]
         /\ SuspendUnit(u, "chunk_put", sem)
    ELSE /\ FinishUnit(u, "none", "item", sem)
         /\ UNCHANGED up_puts

\* delete_item once _request has returned a response with 'status':
\*   client.py 1283-1291: 404 raises ListError, 204 returns True, then
\*     raise_for_status (caught and re-raised as ListError), then True;
\*   async_client.py 816-819: 404 raises ListError, otherwise
\*     status == 204 is returned.
delete_item(kind, status) ==
    IF status = 404 THEN [exc |-> "ListError", ret |-> "none"]
    ELSE IF kind = "async"
    THEN [exc |-> "none", ret |-> IF status = 204 THEN "True" ELSE "False"]
    ELSE IF status = 204 \/ IsSuccess(status)
    THEN [exc |-> "none", ret |-> "True"]
    ELSE [exc |-> Wrapped("batch_delete_items", "HTTPStatusError"),
          ret |-> "none"]

\* The unit's request returned 'status' to its caller.
\*   _upload_large (client.py 560-565): raise_for_status, then upload_url is
\*     taken from the response and the chunk loop starts;
\*   create_item, update_item (async_client.py 782-783, 799-800):
\*     raise_for_status, then the item is returned;
\*   delete_item: see above.
RequestReturned(u, status) ==
    IF batch_op \in {"upload", "upload_batch"}
    THEN IF ~IsSuccess(status)
         THEN /\ FinishUnit(u, Wrapped(batch_op, "HTTPStatusError"), "none", sem)
              /\ UNCHANGED <<up_url, up_uploaded, up_puts, next_url>>
         ELSE /\ next_url' = next_url + 1
              /\ up_url' = [up_url EXCEPT ![u] = next_url + 1]
              /\ up_uploaded' = [up_uploaded EXCEPT ![u] = 0]
              /\ ChunkLoop(u, 0, PutUrl(next_url + 1, next_url + 1))
    ELSE /\ UNCHANGED <<up_url, up_uploaded, up_puts, next_url>>
         /\ IF batch_op = "batch_delete_items"
            THEN FinishUnit(u, delete_item(client_kind, status).exc,
                            delete_item(client_kind, status).ret, sem)
            ELSE IF ~IsSuccess(status)
                 THEN FinishUnit(u, Wrapped(batch_op, "HTTPStatusError"),
                                 "none", sem)
                 ELSE FinishUnit(u, "none", "item", sem)

\* One iteration of the unit's retrying request (see RequestAttempt); when
\* the last iteration ends in 'continue' the loop is left and client.py
\* 142-144 raise.
UnitAttempt(u) ==
    /\ u_pc[u] = "request"
    /\ u_attempt[u] < max_retries
    /\ \E res \in UnitExchangeResults, o \in UnitOutcomes :
         LET tk == UnitToken(res)
             it == RetryIteration(u_attempt[u], o, max_retries, retry_delay)
             last == IF it.records THEN u_attempt[u] ELSE u_last_exception[u]
         IN  /\ StoreUnitToken(tk)
             /\ IF tk.raised
                THEN /\ FinishUnit(u, "AuthenticationError", "none", sem)
                     /\ UNCHANGED <<u_attempt, u_last_exception, up_url,
                                    up_uploaded, up_puts, next_url>>
                ELSE /\ u_last_exception' = [u_last_exception EXCEPT ![u] = last]
                     /\ IF it.next = "continue"
                        THEN /\ u_attempt' = [u_attempt EXCEPT ![u] = @ + 1]
                             /\ UNCHANGED <<up_url, up_uploaded, up_puts, next_url>>
                             /\ IF u_attempt[u] + 1 < max_retries
                                THEN SuspendUnit(u, "request", sem)
                                ELSE FinishUnit(u, Wrapped(batch_op,
                                                    AfterLoop(last).exc),
                                                "none", sem)
                        ELSE /\ UNCHANGED u_attempt
                             /\ IF it.next = "return"
                                THEN RequestReturned(u, o.status)
                                ELSE /\ FinishUnit(u, Wrapped(batch_op, it.exc),
                                                   "none", sem)
                                     /\ UNCHANGED <<up_url, up_uploaded,
                                                    up_puts, next_url>>
    /\ UNCHANGED <<btFixed, upFixed, up_path, up_acked, up_chunk_status,
                   up_progress, now, cfgVars, opVars, tkVars, rqVars>>

\* Variant of ProgressArgs: the size of the chunk is reported, not the total
\* sent so far.
ProgressArgsChunkSize(chunk_start, chunk_end, total_size) ==
    <<chunk_end - chunk_start, total_size>>

\* client.py 581-583: uploaded = chunk_end; progress_callback(uploaded, total_size)
ProgressArgs(chunk_start, chunk_end, total_size) == <<chunk_end, total_size>>

\* _upload_large (client.py 578-583): the chunk PUT is answered;
\* raise_for_status, then uploaded = chunk_end and the progress callback,
\* then the loop goes on.
ChunkResponse(u) ==
    /\ u_pc[u] = "chunk_put"
    /\ \E o \in DirectOutcomes :
         IF o.kind = "error"
         THEN /\ FinishUnit(u, Wrapped(batch_op, "HTTPError"), "none", sem)
              /\ up_chunk_status' = [up_chunk_status EXCEPT ![u] = -1]
              /\ UNCHANGED <<up_uploaded, up_acked, up_progress, up_puts>>
         ELSE IF ~IsSuccess(o.status)
         THEN /\ FinishUnit(u, Wrapped(batch_op, "HTTPStatusError"), "none", sem)
              /\ up_chunk_status' = [up_chunk_status EXCEPT ![u] = o.status]
              /\ UNCHANGED <<up_uploaded, up_acked, up_progress, up_puts>>
         ELSE LET chunk_end == ChunkEnd(up_uploaded[u], up_size[u])
              IN  /\ up_chunk_status' = [up_chunk_status EXCEPT ![u] = o.status]
                  /\ up_uploaded' = [up_uploaded EXCEPT ![u] = chunk_end]
                  /\ up_acked' = [up_acked EXCEPT ![u] = @ + 1]
                  /\ up_progress' = [up_progress EXCEPT ![u] =
                        IF up_cb[u]
                        THEN Append(@, ProgressArgs(up_uploaded[u], chunk_end,
                                                    up_size[u]))
                        ELSE @]
                  /\ ChunkLoop(u, chunk_end, PutUrl(up_url[u], next_url))
    /\ UNCHANGED <<btFixed, upFixed, up_path, up_url, next_url, u_attempt,
                   u_last_exception, cfgVars, opVars, tokVars, tkVars, rqVars>>

\* asyncio.gather(*tasks) (async_client.py 365, 493, 839, 856, 873) with the
\* default return_exceptions=False: the first exception of a task is raised
\* in the awaiting batch call; the other tasks are not cancelled.
GatherRaise ==
    /\ gather_pc = "awaiting"
    /\ first_failed # 0
    /\ gather_pc' = "raised"
    /\ UNCHANGED <<batch_op, batch_n, max_concurrent, batch_cb, sem, completed,
                   bt_progress, first_failed, batch_result,
                   cfgVars, opVars, tokVars, tkVars, rqVars, uVars, upVars>>

\* All tasks returned: gather gives their results in the order of the tasks;
\* download_batch, upload_batch, batch_create_items and batch_update_items
\* return them as a list (async_client.py 367, 495, 839, 856),
\* batch_delete_items returns how many are true (async_client.py 874).
GatherReturn ==
    /\ gather_pc = "awaiting"
    /\ first_failed = 0
    /\ \A u \in 1..batch_n : u_pc[u] = "done"
    /\ gather_pc' = "returned"
    /\ batch_result' =
          IF batch_op = "batch_delete_items"
          THEN [kind |-> "count", items |-> <<>>,
                count |-> CountTrue(GatherResults(batch_n, u_ret))]
          ELSE [kind |-> "list", items |-> GatherResults(batch_n, u_ret),
                count |-> 0]
    /\ UNCHANGED <<batch_op, batch_n, max_concurrent, batch_cb, sem, completed,
                   bt_progress, first_failed,
                   cfgVars, opVars, tokVars, tkVars, rqVars, uVars, upVars>>

\* One direct call of upload on either client, with or without a progress
\* callback.
InitUpload ==
    /\ InitRetryClient
    /\ IdleToken /\ IdleRetry /\ IdleOps
    /\ batch_op = "upload"
    /\ batch_n = 1
    /\ max_concurrent = 0
    /\ batch_cb = FALSE
    /\ sem = 0
    /\ completed = 0
    /\ bt_progress = <<>>
    /\ gather_pc = "none"
    /\ first_failed = 0
    /\ batch_result = NoBatchResult
    /\ u_pc = [u \in Units |-> IF u = 1 THEN "ready" ELSE "absent"]
    /\ u_attempt = [u \in Units |-> 0]
    /\ u_last_exception = [u \in Units |-> -1]
    /\ u_err = [u \in Units |-> "none"]
    /\ u_ret = [u \in Units |-> "none"]
    /\ \E s \in Sizes, cb \in BOOLEAN :
         /\ up_size = [u \in Units |-> IF u = 1 THEN s ELSE 0]
         /\ up_cb = [u \in Units |-> u = 1 /\ cb]
    /\ up_path = [u \in Units |-> "none"]
    /\ up_url = [u \in Units |-> 0]
    /\ up_uploaded = [u \in Units |-> 0]
    /\ up_puts = [u \in Units |-> <<>>]
    /\ up_acked = [u \in Units |-> 0]
    /\ up_chunk_status = [u \in Units |-> 0]
    /\ up_progress = [u \in Units |-> <<>>]
    /\ next_url = 0

NextUpload ==
    \/ UploadCall
    \/ SimpleResponse(1)
    \/ UnitAttempt(1)
    \/ ChunkResponse(1)

SpecUpload == InitUpload /\ [][NextUpload]_vars

\* One call of a batch operation of the async client, inside 'async with',
\* on a client built with max_retries=1: a Semaphore(max_concurrent), one task
\* per unit, then asyncio.gather (async_client.py 334-365, 470-493, 832-839,
\* 849-856, 866-873).  upload_one calls self.upload without a per-file callback.
InitBatch ==
    /\ client_kind = "async"
    /\ has_client = TRUE
    /\ max_retries = 1
    /\ retry_delay = DEFAULT_RETRY_DELAY
    /\ InitCache
    /\ IdleToken /\ IdleRetry /\ IdleOps
    /\ batch_op \in BatchOps
    /\ batch_n \in 0..(IF batch_op = "upload_batch"
                        THEN Min(NumUploads, NumUnits) ELSE NumUnits)
    /\ max_concurrent \in 1..MaxConcurrentBound
    /\ batch_cb \in BOOLEAN
    /\ (batch_op \in ItemOps => batch_cb = FALSE)
    /\ sem = max_concurrent
    /\ completed = 0
    /\ bt_progress = <<>>
    /\ gather_pc = "awaiting"
    /\ first_failed = 0
    /\ batch_result = NoBatchResult
    /\ u_pc = [u \in Units |-> IF u <= batch_n THEN "pending" ELSE "absent"]
    /\ u_attempt = [u \in Units |-> 0]
    /\ u_last_exception = [u \in Units |-> -1]
    /\ u_err = [u \in Units |-> "none"]
    /\ u_ret = [u \in Units |-> "none"]
    /\ up_size \in [Units -> BatchSizes \cup {0}]
    /\ \A u \in Units :
         up_size[u] # 0 <=> (batch_op = "upload_batch" /\ u <= batch_n)
    /\ up_cb = [u \in Units |-> FALSE]
    /\ up_path = [u \in Units |-> "none"]
    /\ up_url = [u \in Units |-> 0]
    /\ up_uploaded = [u \in Units |-> 0]
    /\ up_puts = [u \in Units |-> <<>>]
    /\ up_acked = [u \in Units |-> 0]
    /\ up_chunk_status = [u \in Units |-> 0]
    /\ up_progress = [u \in Units |-> <<>>]
    /\ next_url = 0

NextBatch ==
    \/ \E u \in Units : Acquire(u)
    \/ \E u \in Units : DownloadResponse(u)
    \/ \E u \in Units : SimpleResponse(u)
    \/ \E u \in Units : UnitAttempt(u)
    \/ \E u \in Units : ChunkResponse(u)
    \/ GatherRaise
    \/ GatherReturn

SpecBatch == InitBatch /\ [][NextBatch]_vars

\* The same call on a running event loop: as long as some task can take a
\* step or some request in flight can be answered, one of them eventually
\* does (the loop runs its ready callbacks, the transfers terminate).
FairBatch == WF_vars(NextBatch)

\* The calls of up to three units (two files for upload_batch) made without
\* a batch progress callback.
InitBatchFair ==
    /\ InitBatch
    /\ ~batch_cb
    /\ batch_n <= (IF batch_op = "upload_batch" THEN 2 ELSE 3)

SpecBatchFair == InitBatchFair /\ [][NextBatch]_vars /\ FairBatch

\* The loop of the sync download_batch / upload_batch (client.py 464-467,
\* 615-623) reaches file number u (i = u - 1): every earlier file was
\* transferred; progress_callback(name, i + 1, len(files)) is called when
\* given.
SyncBatchNext(u) ==
    /\ client_kind = "sync"
    /\ batch_op \in ProgressOps
    /\ gather_pc = "awaiting"
    /\ u_pc[u] = "pending"
    /\ \A v \in 1..(u - 1) : u_pc[v] = "done"
    /\ u_pc' = [u_pc EXCEPT ![u] = "announced"]
    /\ bt_progress' = IF batch_cb
                      THEN Append(bt_progress, <<u, u, batch_n>>)
                      ELSE bt_progress
    /\ UNCHANGED <<batch_op, batch_n, max_concurrent, batch_cb, sem, completed,
                   gather_pc, first_failed, batch_result, u_attempt,
                   u_last_exception, u_err, u_ret,
                   cfgVars, opVars, tokVars, tkVars, rqVars, upVars>>

\* The callback returned: self.download / self.upload is called for the file
\* (client.py 469, 624) and runs up to its first request.
SyncBatchTransfer(u) ==
    /\ client_kind = "sync"
    /\ batch_op \in ProgressOps
    /\ u_pc[u] = "announced"
    /\ StartBody(u, sem)
    /\ UNCHANGED <<btFixed, upFixed, up_url, up_uploaded, up_puts, up_acked,
                   up_chunk_status, up_progress, next_url, now, cfgVars, opVars,
                   tkVars, rqVars>>

\* An exception of self.download / self.upload leaves the loop and the
\* batch call.
SyncBatchRaise ==
    /\ client_kind = "sync"
    /\ gather_pc = "awaiting"
    /\ first_failed # 0
    /\ gather_pc' = "raised"
    /\ UNCHANGED <<batch_op, batch_n, max_concurrent, batch_cb, sem, completed,
                   bt_progress, first_failed, batch_result,
                   cfgVars, opVars, tokVars, tkVars, rqVars, uVars, upVars>>

\* The loop is over: the list the results were appended to is returned.
SyncBatchReturn ==
    /\ client_kind = "sync"
    /\ gather_pc = "awaiting"
    /\ \A u \in 1..batch_n : u_pc[u] = "done"
    /\ gather_pc' = "returned"
    /\ batch_result' =
          [kind |-> "list",
           items |-> [i \in 1..batch_n |-> [unit |-> i, value |-> u_ret[i]]],
           count |-> 0]
    /\ UNCHANGED <<batch_op, batch_n, max_concurrent, batch_cb, sem, completed,
                   bt_progress, first_failed,
                   cfgVars, opVars, tokVars, tkVars, rqVars, uVars, upVars>>

\* One call of download_batch or upload_batch of the sync client, built with
\* max_retries=1.
InitSyncBatch ==
    /\ client_kind = "sync"
    /\ has_client = FALSE
    /\ max_retries = 1
    /\ retry_delay = DEFAULT_RETRY_DELAY
    /\ InitCache
    /\ IdleToken /\ IdleRetry /\ IdleOps
    /\ batch_op \in ProgressOps
    /\ batch_n \in 0..(IF batch_op = "upload_batch"
                        THEN Min(NumUploads, NumUnits) ELSE NumUnits)
    /\ max_concurrent = 0
    /\ batch_cb \in BOOLEAN
    /\ sem = 0
    /\ completed = 0
    /\ bt_progress = <<>>
    /\ gather_pc = "awaiting"
    /\ first_failed = 0
    /\ batch_result = NoBatchResult
    /\ u_pc = [u \in Units |-> IF u <= batch_n THEN "pending" ELSE "absent"]
    /\ u_attempt = [u \in Units |-> 0]
    /\ u_last_exception = [u \in Units |-> -1]
    /\ u_err = [u \in Units |-> "none"]
    /\ u_ret = [u \in Units |-> "none"]
    /\ up_size \in [Units -> BatchSizes \cup {0}]
    /\ \A u \in Units :
         up_size[u] # 0 <=> (batch_op = "upload_batch" /\ u <= batch_n)
    /\ up_cb = [u \in Units |-> FALSE]
    /\ up_path = [u \in Units |-> "none"]
    /\ up_url = [u \in Units |-> 0]
    /\ up_uploaded = [u \in Units |-> 0]
    /\ up_puts = [u \in Units |-> <<>>]
    /\ up_acked = [u \in Units |-> 0]
    /\ up_chunk_status = [u \in Units |-> 0]
    /\ up_progress = [u \in Units |-> <<>>]
    /\ next_url = 0

NextSyncBatch ==
    \/ \E u \in Units : SyncBatchNext(u)
    \/ \E u \in Units : SyncBatchTransfer(u)
    \/ \E u \in Units : DownloadResponse(u)
    \/ \E u \in Units : SimpleResponse(u)
    \/ \E u \in Units : UnitAttempt(u)
    \/ \E u \in Units : ChunkResponse(u)
    \/ SyncBatchRaise
    \/ SyncBatchReturn

SpecSyncBatch == InitSyncBatch /\ [][NextSyncBatch]_vars

(***************************************************************************)
(* One call of download or download_by_id (client.py 383-434, 1554-1598,   *)
(* async_client.py 285-319, 948-977): a streaming GET on a client of its   *)
(* own, outside the retrying request.                                      *)
(***************************************************************************)
DOWNLOAD_CHUNK_SIZE == 8192     \* client.py 425: iter_bytes(chunk_size=8192)

\* Bodies the server delivers and Content-Length headers it sends.  The
\* header counts the bytes on the wire, the stream yields decoded bytes, so
\* with a Content-Encoding the two differ.
BodySizes == {0, 1, DOWNLOAD_CHUNK_SIZE, DOWNLOAD_CHUNK_SIZE + 1,
              3 * DOWNLOAD_CHUNK_SIZE, 128 * DOWNLOAD_CHUNK_SIZE}
ContentLengths == {NoContentLength} \cup BodySizes

\* client.py 421: int(response.headers.get("content-length", 0))
TotalSize(header) == IF header = NoContentLength THEN 0 ELSE header

\* client.py 425: iter_bytes(chunk_size=8192) yields the body in pieces of
\* 8192 bytes, the last one shorter.
NextChunk(left) == Min(DOWNLOAD_CHUNK_SIZE, left)

\* Variant of CallsBack: the callback is invoked whenever one was passed.
CallsBackAlways(cb, total) == cb

\* client.py 428: if progress_callback and total_size
CallsBack(cb, total) == cb /\ total # 0

\* Variant of DownloadProgress: the length of the chunk is reported.
DownloadProgressChunkLen(n, done, total) == <<n, total>>

\* client.py 429: progress_callback(downloaded, total_size), after
\* 'downloaded += len(chunk)'.
DownloadProgress(n, done, total) == <<done, total>>

\* Every download method has the try/except of client.py 411-432 except the
\* async download_by_id (async_client.py 958-975), which catches nothing.
DownloadCatches == ~(client_kind = "async" /\ dl_method = "download_by_id")

\* The exception the call raises for an answer o to the GET, "none" for a
\* success.
StreamFailure(o) ==
    IF DownloadCatches THEN DownloadFailure(o)
    ELSE IF o.kind = "error" THEN "HTTPError"
    ELSE IF o.status = 404 THEN "FileNotFoundError"
    ELSE IF ~IsSuccess(o.status) THEN "HTTPStatusError"
    ELSE "none"

dlFixed == <<dl_method, dl_cb, dl_header, dl_size>>

\* client.py 411-413: the headers are built (_get_headers calls _get_token)
\* and the GET is issued on a fresh httpx.Client.
DownloadCall ==
    /\ dl_pc = "ready"
    /\ \E res \in UnitExchangeResults :
         LET tk == UnitToken(res)
         IN  /\ StoreUnitToken(tk)
             /\ IF tk.raised
                THEN /\ dl_pc' = "done"
                     /\ dl_result' = Raises("AuthenticationError")
                     /\ UNCHANGED dl_gets
                ELSE /\ dl_pc' = "get"
                     /\ dl_gets' = dl_gets + 1
                     /\ UNCHANGED dl_result
    /\ UNCHANGED <<dlFixed, dl_sent, dl_total_size, dl_downloaded, dl_file,
                   dl_chunks, dl_progress, now, diVars, fdVars, pgVars, ctVars, cfgVars, tkVars, rqVars, btVars, uVars,
                   upVars>>

\* client.py 414-424: the response head arrives; 404 and raise_for_status
\* end the call, otherwise total_size is read and the file is opened.
DownloadAnswered ==
    /\ dl_pc = "get"
    /\ \E o \in DirectOutcomes :
         IF StreamFailure(o) # "none"
         THEN /\ dl_pc' = "done"
              /\ dl_result' = Raises(StreamFailure(o))
              /\ UNCHANGED <<dl_total_size, dl_downloaded>>
         ELSE /\ dl_pc' = "streaming"
              /\ dl_total_size' = TotalSize(dl_header)
              /\ dl_downloaded' = 0
              /\ UNCHANGED dl_result
    /\ UNCHANGED <<dlFixed, dl_sent, dl_file, dl_chunks, dl_progress, dl_gets,
                   diVars, fdVars, pgVars, ctVars, cfgVars, tokVars, tkVars, rqVars, btVars, uVars, upVars>>

\* client.py 425-429: one pass of the loop over iter_bytes.
DownloadChunk ==
    /\ dl_pc = "streaming"
    /\ dl_sent < dl_size
    /\ LET n == NextChunk(dl_size - dl_sent)
       IN  /\ dl_sent' = dl_sent + n
           /\ dl_chunks' = dl_chunks + 1
           /\ dl_file' = dl_file + n
           /\ dl_downloaded' = dl_downloaded + n
           /\ dl_progress' =
                IF CallsBack(dl_cb, dl_total_size)
                THEN Append(dl_progress,
                            DownloadProgress(n, dl_downloaded + n, dl_total_size))
                ELSE dl_progress
    /\ UNCHANGED <<dlFixed, dl_pc, dl_total_size, dl_gets, dl_result,
                   diVars, fdVars, pgVars, ctVars, cfgVars, tokVars, tkVars, rqVars, btVars, uVars, upVars>>

\* The connection breaks while the body is read: iter_bytes raises an
\* httpx.HTTPError, which leaves the call as StreamFailure says.
DownloadStreamError ==
    /\ dl_pc = "streaming"
    /\ dl_sent < dl_size
    /\ dl_pc' = "done"
    /\ dl_result' = Raises(StreamFailure(TransportError))
    /\ UNCHANGED <<dlFixed, dl_sent, dl_total_size, dl_downloaded, dl_file,
                   dl_chunks, dl_progress, dl_gets,
                   diVars, fdVars, pgVars, ctVars, cfgVars, tokVars, tkVars, rqVars, btVars, uVars, upVars>>

\* client.py 434: the stream is exhausted, the destination is returned.
DownloadReturn ==
    /\ dl_pc = "streaming"
    /\ dl_sent = dl_size
    /\ dl_pc' = "done"
    /\ dl_result' = Returns
    /\ UNCHANGED <<dlFixed, dl_sent, dl_total_size, dl_downloaded, dl_file,
                   dl_chunks, dl_progress, dl_gets,
                   diVars, fdVars, pgVars, ctVars, cfgVars, tokVars, tkVars, rqVars, btVars, uVars, upVars>>

InitDownload ==
    /\ client_kind \in {"sync", "async"}
    /\ has_client = (client_kind = "async")
    /\ max_retries = DEFAULT_MAX_RETRIES
    /\ retry_delay = DEFAULT_RETRY_DELAY
    /\ InitCache
    /\ IdleToken /\ IdleRetry /\ IdleBatch /\ IdleUnits /\ IdleUploads
    /\ IdleDelete /\ IdleFolders /\ IdlePages /\ IdleConstructor
    /\ dl_pc = "ready"
    /\ dl_method \in {"download", "download_by_id"}
    /\ dl_cb \in BOOLEAN
    /\ dl_header \in ContentLengths
    /\ dl_size \in BodySizes
    /\ (dl_header # NoContentLength => (dl_header = 0 <=> dl_size = 0))
    /\ dl_sent = 0
    /\ dl_total_size = 0
    /\ dl_downloaded = 0
    /\ dl_file = 0
    /\ dl_chunks = 0
    /\ dl_progress = <<>>
    /\ dl_gets = 0
    /\ dl_result = NoCallResult

NextDownload ==
    \/ DownloadCall
    \/ DownloadAnswered
    \/ DownloadChunk
    \/ DownloadStreamError
    \/ DownloadReturn

SpecDownload == InitDownload /\ [][NextDownload]_vars

(***************************************************************************)
(* batch_delete_items (client.py 1407-1428, async_client.py 858-874) and   *)
(* delete_item (client.py 1259-1293, async_client.py 804-822), called on   *)
(* a sync and on an async client whose DELETE requests end the same way.   *)
(***************************************************************************)
DeleteStatuses == {200, 204, 403, 404, 429, 503}

\* How a call of the retrying request can end: a response whose status is
\* not retried is returned (client.py 129-134); the loop raises the
\* transport error of its last round (135-140), and after the loop the
\* stored exception or RuntimeError (142-144).
RequestEnds(statuses) ==
    {[kind |-> "response", status |-> st, exc |-> "none", exc_attempt |-> -1] :
        st \in {t \in statuses : ~RetryableStatus(t)}}
    \cup {AfterLoop(-1), AfterLoop(0)}

\* delete_item for one item whose request ended as 'r': the except clause
\* (client.py 1292-1293) wraps httpx.HTTPError only.
DeleteItemCall(k, r) ==
    IF r.kind = "raise"
    THEN [exc |-> Wrapped("batch_delete_items", r.exc), ret |-> "none"]
    ELSE delete_item(k, r.status)

\* client.py 1424-1428: deleted += 1 for each True; async_client.py 874:
\* sum(1 for r in results if r).
Deleted(items) == Cardinality({i \in 1..Len(items) : items[i].ret = "True"})

\* The next item of the batch is deleted; an exception ends the batch call
\* (the sync loop has no handler, gather re-raises).
DeleteNext(k) ==
    /\ di_pc[k] = "running"
    /\ Len(di_items[k]) < Len(di_answers)
    /\ LET r == DeleteItemCall(k, di_answers[Len(di_items[k]) + 1])
       IN  /\ di_items' = [di_items EXCEPT ![k] = Append(@, r)]
           /\ IF r.exc # "none"
              THEN /\ di_pc' = [di_pc EXCEPT ![k] = "done"]
                   /\ di_result' = [di_result EXCEPT ![k] =
                          [kind |-> "raise", exc |-> r.exc, count |-> 0]]
              ELSE UNCHANGED <<di_pc, di_result>>
    /\ UNCHANGED <<di_answers, dlVars, fdVars, pgVars, ctVars, cfgVars, tokVars, tkVars, rqVars, btVars,
                   uVars, upVars>>

\* Every item is done: the number of deleted items is returned.
DeleteReturn(k) ==
    /\ di_pc[k] = "running"
    /\ Len(di_items[k]) = Len(di_answers)
    /\ di_pc' = [di_pc EXCEPT ![k] = "done"]
    /\ di_result' = [di_result EXCEPT ![k] =
           [kind |-> "return", exc |-> "none", count |-> Deleted(di_items[k])]]
    /\ UNCHANGED <<di_answers, di_items, dlVars, fdVars, pgVars, ctVars, cfgVars, tokVars, tkVars,
                   rqVars, btVars, uVars, upVars>>

InitDelete ==
    /\ client_kind = "sync"
    /\ has_client = FALSE
    /\ max_retries = DEFAULT_MAX_RETRIES
    /\ retry_delay = DEFAULT_RETRY_DELAY
    /\ InitCache
    /\ IdleToken /\ IdleRetry /\ IdleBatch /\ IdleUnits /\ IdleUploads
    /\ IdleDownload /\ IdleFolders /\ IdlePages /\ IdleConstructor
    /\ \E n \in 0..NumUnits :
         di_answers \in [1..n -> RequestEnds(DeleteStatuses)]
    /\ di_pc = [k \in Clients |-> "running"]
    /\ di_items = [k \in Clients |-> <<>>]
    /\ di_result = [k \in Clients |-> NoDeleteResult]

NextDelete ==
    \/ \E k \in Clients : DeleteNext(k)
    \/ \E k \in Clients : DeleteReturn(k)

SpecDelete == InitDelete /\ [][NextDelete]_vars

(***************************************************************************)
(* create_folder (client.py 633-680, async_client.py 501-533) and          *)
(* create_folder_recursive (client.py 682-711) for the path "f1/../fn",    *)
(* against a drive that holds the folders "f1", "f1/f2", .. up to some     *)
(* depth.  A folder is named by the number of parts of its path.           *)
(***************************************************************************)
Response(status) ==
    [kind |-> "response", status |-> status, exc |-> "none", exc_attempt |-> -1]

\* Ends of a request that do not come from the drive's state: a refusal,
\* and the exceptions the retrying request raises.
Faults == {Response(403), AfterLoop(-1), AfterLoop(0)}

\* The drive's answer to POST .../children with conflictBehavior "fail" for
\* the folder of depth d when it holds the folders up to depth 'server'.
ServerPost(server, d) ==
    IF d <= server THEN 409 ELSE IF d = server + 1 THEN 201 ELSE 404

\* The drive's answer to GET .../root:/{path}.
ServerGet(server, d) == IF d <= server THEN 200 ELSE 404

PostEnds(server, d) == {Response(ServerPost(server, d))} \cup Faults
GetEnds(server, d) == {Response(ServerGet(server, d))} \cup Faults

\* The metadata the drive returns for the folder of depth d.
FolderMeta(d) == d

\* get_file_metadata (client.py 350-378) whose GET ended as g: 404 raises
\* FileNotFoundError, raise_for_status, then the JSON; nothing is caught.
get_file_metadata(g, d) ==
    IF g.kind = "raise" THEN [exc |-> g.exc, meta |-> 0]
    ELSE IF g.status = 404 THEN [exc |-> "FileNotFoundError", meta |-> 0]
    ELSE IF ~IsSuccess(g.status) THEN [exc |-> "HTTPStatusError", meta |-> 0]
    ELSE [exc |-> "none", meta |-> FolderMeta(d)]

\* client.py 679-680: except httpx.HTTPError -> FolderCreateError.
FolderWrapped(exc) ==
    IF exc \in {"HTTPError", "HTTPStatusError"} THEN "FolderCreateError" ELSE exc

\* Variant of IsConflict: a 409 is an error like any other.
IsConflictNever(status) == FALSE

\* client.py 673: if response.status_code == 409
IsConflict(status) == status = 409

\* create_folder for the folder of depth d (client.py 667-680) whose POST
\* ended as r and whose metadata GET, if it is sent, ends as g.
create_folder(r, g, d) ==
    IF r.kind = "raise"
    THEN [path |-> d, post |-> 0, get |-> -1, exc |-> FolderWrapped(r.exc),
          meta |-> 0]
    ELSE IF IsConflict(r.status)
    THEN [path |-> d, post |-> r.status, get |-> g.status,
          exc |-> FolderWrapped(get_file_metadata(g, d).exc),
          meta |-> get_file_metadata(g, d).meta]
    ELSE IF ~IsSuccess(r.status)
    THEN [path |-> d, post |-> r.status, get |-> -1,
          exc |-> FolderWrapped("HTTPStatusError"), meta |-> 0]
    ELSE [path |-> d, post |-> r.status, get |-> -1, exc |-> "none",
          meta |-> FolderMeta(d)]

\* The drive after the POST ended as r: a 201 created the folder.
ServerAfter(server, r, d) ==
    IF r.kind = "response" /\ r.status = 201 THEN d ELSE server

\* A direct call create_folder(site_id, drive_id, folder_path); the program
\* makes two of them in a row.
CreateFolderCall ==
    /\ fd_op = "create_folder"
    /\ fd_pc = "ready"
    /\ \E r \in PostEnds(fd_server, fd_path), g \in GetEnds(fd_server, fd_path) :
         /\ fd_calls' = Append(fd_calls, create_folder(r, g, fd_path))
         /\ fd_server' = ServerAfter(fd_server, r, fd_path)
    /\ fd_pc' = IF Len(fd_calls) = 1 THEN "done" ELSE "ready"
    /\ UNCHANGED <<fd_op, fd_path, fd_result, fd_out, dlVars, pgVars, ctVars, diVars, cfgVars,
                   tokVars, tkVars, rqVars, btVars, uVars, upVars>>

\* create_folder_recursive, one pass of 'for part in parts' (client.py
\* 702-709): create_folder for the next prefix; FolderCreateError is
\* swallowed, any other exception leaves the call.
RecursiveNext ==
    /\ fd_op = "create_folder_recursive"
    /\ fd_pc = "ready"
    /\ Len(fd_calls) < fd_path
    /\ LET d == Len(fd_calls) + 1
       IN  \E r \in PostEnds(fd_server, d), g \in GetEnds(fd_server, d) :
             LET c == create_folder(r, g, d)
             IN  /\ fd_calls' = Append(fd_calls, c)
                 /\ fd_server' = ServerAfter(fd_server, r, d)
                 /\ fd_result' = IF c.exc = "none" THEN c.meta ELSE fd_result
                 /\ IF c.exc \in {"none", "FolderCreateError"}
                    THEN UNCHANGED <<fd_pc, fd_out>>
                    ELSE /\ fd_pc' = "done"
                         /\ fd_out' = [kind |-> "raise", exc |-> c.exc, meta |-> 0]
    /\ UNCHANGED <<fd_op, fd_path, dlVars, pgVars, ctVars, diVars, cfgVars, tokVars, tkVars,
                   rqVars, btVars, uVars, upVars>>

\* client.py 711: return result or self.get_file_metadata(.., folder_path)
RecursiveReturn ==
    /\ fd_op = "create_folder_recursive"
    /\ fd_pc = "ready"
    /\ Len(fd_calls) = fd_path
    /\ fd_pc' = "done"
    /\ IF fd_result # 0
       THEN fd_out' = [kind |-> "return", exc |-> "none", meta |-> fd_result]
       ELSE \E g \in GetEnds(fd_server, fd_path) :
              LET m == get_file_metadata(g, fd_path)
              IN  fd_out' = [kind |-> IF m.exc = "none" THEN "return" ELSE "raise",
                             exc |-> m.exc, meta |-> m.meta]
    /\ UNCHANGED <<fd_op, fd_path, fd_server, fd_calls, fd_result, dlVars, pgVars, ctVars,
                   diVars, cfgVars, tokVars, tkVars, rqVars, btVars, uVars,
                   upVars>>

InitFolders ==
    /\ client_kind \in Clients
    /\ has_client = (client_kind = "async")
    /\ max_retries = DEFAULT_MAX_RETRIES
    /\ retry_delay = DEFAULT_RETRY_DELAY
    /\ InitCache
    /\ IdleToken /\ IdleRetry /\ IdleBatch /\ IdleUnits /\ IdleUploads
    /\ IdleDownload /\ IdleDelete /\ IdlePages /\ IdleConstructor
    /\ fd_op \in {"create_folder", "create_folder_recursive"}
    /\ (fd_op = "create_folder_recursive" => client_kind = "sync")
    /\ fd_path \in 1..MaxDepth
    /\ fd_server \in 0..MaxDepth
    /\ fd_pc = "ready"
    /\ fd_calls = <<>>
    /\ fd_result = 0
    /\ fd_out = NoFolderResult

NextFolders ==
    \/ CreateFolderCall
    \/ RecursiveNext
    \/ RecursiveReturn

SpecFolders == InitFolders /\ [][NextFolders]_vars

(***************************************************************************)
(* list_all_items (client.py 1114-1155, async_client.py 720-748) against   *)
(* a list the server serves in pages; every page but the last carries an   *)
(* @odata.nextLink to the following one.                                   *)
(***************************************************************************)
\* A page's JSON: with or without the "value" key, and 'count' items in it.
Pages ==
    {[has_value |-> FALSE, count |-> 0]} \cup [has_value : {TRUE}, count : 0..2]

\* data.get("value", []) of page i; an item is named by its page and its
\* position in the page.
PageValue(pages, i) ==
    IF pages[i].has_value THEN [k \in 1..pages[i].count |-> <<i, k>>] ELSE <<>>

\* data.get("@odata.nextLink") of page i.
NextLink(pages, i) == IF i < Len(pages) THEN i + 1 ELSE 0

\* Variant of Extend: the page's items are put in front.
ExtendInFront(items, value) == value \o items

\* client.py 1150: all_items.extend(data.get("value", []))
Extend(items, value) == items \o value

\* client.py 1146-1153, one pass of 'while url': the request for the page,
\* raise_for_status, extend, next url.  Nothing is caught.
PageRequest ==
    /\ pg_pc = "loop"
    /\ pg_url # 0
    /\ pg_requests' = Append(pg_requests, pg_url)
    /\ \E r \in {Response(200)} \cup Faults :
         IF r.kind = "raise" \/ ~IsSuccess(r.status)
         THEN /\ pg_pc' = "done"
              /\ pg_out' = Raises(IF r.kind = "raise" THEN r.exc
                                  ELSE "HTTPStatusError")
              /\ UNCHANGED <<pg_url, all_items>>
         ELSE /\ all_items' = Extend(all_items, PageValue(pg_pages, pg_url))
              /\ pg_url' = NextLink(pg_pages, pg_url)
              /\ UNCHANGED <<pg_pc, pg_out>>
    /\ UNCHANGED <<pg_pages, dlVars, ctVars, diVars, fdVars, cfgVars, tokVars, tkVars,
                   rqVars, btVars, uVars, upVars>>

\* client.py 1155: url is None, all_items is returned.
PagesReturn ==
    /\ pg_pc = "loop"
    /\ pg_url = 0
    /\ pg_pc' = "done"
    /\ pg_out' = Returns
    /\ UNCHANGED <<pg_pages, pg_url, pg_requests, all_items, dlVars, ctVars, diVars,
                   fdVars, cfgVars, tokVars, tkVars, rqVars, btVars, uVars,
                   upVars>>

InitPages ==
    /\ client_kind \in Clients
    /\ has_client = (client_kind = "async")
    /\ max_retries = DEFAULT_MAX_RETRIES
    /\ retry_delay = DEFAULT_RETRY_DELAY
    /\ InitCache
    /\ IdleToken /\ IdleRetry /\ IdleBatch /\ IdleUnits /\ IdleUploads
    /\ IdleDownload /\ IdleDelete /\ IdleFolders /\ IdleConstructor
    /\ \E n \in 1..MaxPages : pg_pages \in [1..n -> Pages]
    /\ pg_pc = "loop"
    /\ pg_url = 1
    /\ pg_requests = <<>>
    /\ all_items = <<>>
    /\ pg_out = NoCallResult

NextPages ==
    \/ PageRequest
    \/ PagesReturn

\* The call runs: a request that was sent ends, the loop goes on.
FairPages == WF_vars(NextPages)

SpecPages == InitPages /\ [][NextPages]_vars /\ FairPages

(***************************************************************************)
(* The constructor (client.py 37-73, async_client.py 37-69).               *)
(***************************************************************************)
\* An argument is None, an empty string or a value; an environment variable
\* is unset (os.getenv gives None), empty or a value.
ParamValues == {None, "", "given"}
EnvValues == {None, "", "from-env"}

\* Python truth of a str | None.
Truthy(v) == v \notin {None, ""}

\* client.py 58-60: client_id or os.getenv("MICROSOFT_CLIENT_ID")
Or(a, b) == IF Truthy(a) THEN a ELSE b

\* Variant of AllSet: one credential is enough.
AnySet(attrs) == \E f \in Credentials : Truthy(attrs[f])

\* client.py 64: all([self.client_id, self.client_secret, self.tenant_id])
AllSet(attrs) == \A f \in Credentials : Truthy(attrs[f])

\* __init__ (client.py 58-73): the attributes are taken from the arguments
\* or the environment; when one is not set AuthenticationError is raised
\* and the caller gets no object.
Construct ==
    /\ ct_pc = "ready"
    /\ ct_pc' = "done"
    /\ LET attrs == [f \in Credentials |-> Or(ct_params[f], ct_env[f])]
       IN  IF ~AllSet(attrs)
           THEN /\ ct_out' = Raises("AuthenticationError")
                /\ UNCHANGED ct_self
           ELSE /\ ct_out' = Returns
                /\ ct_self' = attrs
    /\ UNCHANGED <<ct_params, ct_env, dlVars, diVars, fdVars, pgVars, cfgVars,
                   tokVars, tkVars, rqVars, btVars, uVars, upVars>>

InitConstructor ==
    /\ client_kind \in Clients
    /\ has_client = FALSE
    /\ max_retries = DEFAULT_MAX_RETRIES
    /\ retry_delay = DEFAULT_RETRY_DELAY
    /\ InitCache
    /\ IdleToken /\ IdleRetry /\ IdleBatch /\ IdleUnits /\ IdleUploads
    /\ IdleDownload /\ IdleDelete /\ IdleFolders /\ IdlePages
    /\ ct_pc = "ready"
    /\ ct_params \in [Credentials -> ParamValues]
    /\ ct_env \in [Credentials -> EnvValues]
    /\ ct_self = NoClient
    /\ ct_out = NoCallResult

NextConstructor == Construct

SpecConstructor == InitConstructor /\ [][NextConstructor]_vars

(***************************************************************************)
(* One call of a transfer whose data request is sent directly: upload      *)
(* (client.py 522-585) or download (client.py 411-434).                    *)
(***************************************************************************)
InitTransfer == InitUpload \/ InitDownload

NextTransfer == NextUpload \/ NextDownload

SpecTransfer == InitTransfer /\ [][NextTransfer]_vars

InitRetry ==
    InitRetryClient /\ IdleToken /\ IdleRetry /\ IdleBatch /\ IdleUnits /\ IdleUploads
    /\ IdleOps

NextRetry ==
    \/ RequestCall
    \/ RequestAttempt
    \/ RequestExhausted

SpecRetry == InitRetry /\ [][NextRetry]_vars

InitToken ==
    InitClient /\ IdleToken /\ IdleRetry /\ IdleBatch /\ IdleUnits /\ IdleUploads
    /\ IdleOps

NextToken ==
    \/ \E t \in Threads : GetTokenCall(t)
    \/ \E t \in Threads : ExchangeReturn(t)
    \/ \E t \in Threads : StoreExpiry(t)
    \/ \E t \in Threads : CallerContinues(t)
    \/ Tick

SpecToken == InitToken /\ [][NextToken]_vars

(***************************************************************************)
(* Claims.                                                                 *)
(***************************************************************************)
AllRetryable(h) == \A i \in 1..Len(h) : h[i] = 429 \/ h[i] >= 500
InTransfer == {"get", "request", "simple_put", "chunk_put"}
Holders == {u \in Units : u_pc[u] \in InTransfer}
Settled(u) == u_pc[u] \in {"done", "failed"}
CeilDiv(a, b) == (a + b - 1) \div b

\* C1: when every attempt of a request receives 429 or 5xx, the
\* retrying request makes exactly max_retries attempts and then returns the
\* last response to its caller without raising.
C1_ExhaustionReturnsLastResponse ==
    (/\ rq_pc = "done"
     /\ rq_attempt = max_retries
     /\ Len(rq_hist) = max_retries
     /\ AllRetryable(rq_hist))
    => (/\ rq_result.kind = "response"
        /\ rq_result.status = rq_hist[Len(rq_hist)])

\* C2: a call of _get_token returns the cached token without an exchange
\* exactly when a token is cached and now < expiresAt - 300; in every other
\* case it performs exactly one exchange, which on success replaces the cached
\* token and then its expiry (now + expires_in, 3600 by default), and on
\* failure leaves both alone.
C2_Step ==
    \A t \in Threads :
      /\ (tk_pc[t] = "idle" /\ tk_pc'[t] # "idle") =>
            IF _access_token # NoToken /\ now < _token_expires_at - 300
            THEN /\ tk_pc'[t] = "done"
                 /\ tk_out'[t] = "return"
                 /\ tk_ret'[t] = _access_token
                 /\ tk_exch'[t] = 0
                 /\ UNCHANGED <<_access_token, _token_expires_at>>
            ELSE /\ tk_pc'[t] = "exchanging"
                 /\ tk_exch'[t] = 1
      /\ (tk_pc[t] = "exchanging" /\ tk_pc'[t] # "exchanging") =>
            /\ tk_exch'[t] = 1
            /\ \/ /\ tk_pc'[t] = "storing"
                  /\ tk_res'[t].ok
                  /\ _access_token' = tk_res'[t].access_token
               \/ /\ tk_pc'[t] = "done"
                  /\ tk_out'[t] = "AuthenticationError"
                  /\ UNCHANGED <<_access_token, _token_expires_at>>
      /\ (tk_pc[t] = "storing" /\ tk_pc'[t] # "storing") =>
            /\ tk_pc'[t] = "done"
            /\ tk_out'[t] = "return"
            /\ tk_exch'[t] = 1
            /\ tk_ret'[t] = _access_token'
            /\ _token_expires_at' =
                  now + (IF tk_res[t].expires_in = -1
                         THEN 3600 ELSE tk_res[t].expires_in)
C2_TokenReuse == [][C2_Step]_vars

\* C2 witness: after time has passed, a call returned the cached token,
\* still inside its validity, without an exchange, while an earlier token of
\* the cache had to be replaced (the clock is past a 400 s token's margin).
C2_Witness ==
    \E t \in Threads :
      /\ tk_pc[t] = "done"
      /\ tk_out[t] = "return"
      /\ tk_exch[t] = 0
      /\ tk_ret[t] = _access_token
      /\ now >= 100
      /\ now < _token_expires_at - 300

\* C3: under concurrent callers of _get_token on one client, at
\* most one credential exchange is in flight at any time.
C3_SingleFlight ==
    Cardinality({t \in Threads : tk_pc[t] = "exchanging"}) <= 1

\* C4: in an async batch operation at most max_concurrent units are inside
\* their transfer at any moment.
C4_ConcurrencyBound ==
    InBatch => Cardinality(Holders) <= max_concurrent

\* C4 witness: max_concurrent >= 2 units are in their transfers while another
\* unit waits for a permit.
C4_Witness ==
    /\ InBatch
    /\ max_concurrent >= 2
    /\ Cardinality(Holders) = max_concurrent
    /\ \E u \in Units : u_pc[u] = "pending"

\* C5: the batch call surfaces the first failure only after
\* every unit of the batch has settled.
C5_RaisesAfterAllSettled ==
    gather_pc = "raised" => \A u \in 1..batch_n : Settled(u)

\* C6: upload takes the single-PUT path if and only if the payload size is at
\* most 4194304 bytes; on that path no session is created and no chunk is
\* sent; otherwise no single PUT is sent and a successful upload created a
\* session and sent chunks to it.
C6_PathBySize ==
    (batch_op = "upload" /\ up_path[1] # "none") =>
        /\ up_path[1] = "simple" <=> up_size[1] <= 4194304
        /\ up_path[1] = "simple" => (up_url[1] = 0 /\ up_puts[1] = <<>>)
        /\ up_path[1] = "session" => u_pc[1] # "simple_put"
        /\ (up_path[1] = "session" /\ u_pc[1] = "done") =>
              (up_url[1] # 0 /\ Len(up_puts[1]) >= 1)

\* C6 witness: a payload one byte over the threshold was uploaded through a
\* session.
C6_Witness ==
    /\ batch_op = "upload"
    /\ u_pc[1] = "done"
    /\ up_size[1] = 4194305
    /\ up_path[1] = "session"
    /\ Len(up_puts[1]) = 1

\* C7: the chunk byte ranges of a session upload of S bytes are contiguous
\* and non-overlapping: the first starts at 0, each later one at the previous
\* end + 1, every Content-Range carries the total S, and the final chunk of a
\* finished upload ends at S - 1.
C7_ContiguousRanges ==
    batch_op = "upload" =>
        LET p == up_puts[1]
        IN  /\ Len(p) >= 1 => p[1].start = 0
            /\ \A i \in 2..Len(p) : p[i].start = p[i - 1].end + 1
            /\ \A i \in 1..Len(p) : p[i].start <= p[i].end
            /\ \A i \in 1..Len(p) : p[i].total = up_size[1]
            /\ (u_pc[1] = "done" /\ up_path[1] = "session") =>
                  (Len(p) >= 1 /\ p[Len(p)].end = up_size[1] - 1)

\* C7 witness: a 25 MiB upload finished with three chunks, the last ending at
\* byte 26214399.
C7_Witness ==
    /\ batch_op = "upload"
    /\ u_pc[1] = "done"
    /\ up_size[1] = 26214400
    /\ Len(up_puts[1]) = 3
    /\ up_puts[1][2].start = 10485760
    /\ up_puts[1][3].end = 26214399

\* C8: a successful session upload of S bytes sent exactly ceil(S / 10 MiB)
\* chunks; every chunk but the last is 10485760 bytes, the last is
\* S mod 10485760 (10485760 when S is a multiple); no chunk is ever empty.
C8_ChunkCountAndSizes ==
    batch_op = "upload" =>
        LET p == up_puts[1]
            S == up_size[1]
        IN  /\ \A i \in 1..Len(p) : p[i].len > 0
            /\ (u_pc[1] = "done" /\ up_path[1] = "session") =>
                  /\ Len(p) = CeilDiv(S, 10485760)
                  /\ \A i \in 1..(Len(p) - 1) : p[i].len = 10485760
                  /\ p[Len(p)].len = IF S % 10485760 = 0
                                     THEN 10485760 ELSE S % 10485760

\* C8 witness: a payload of exactly two chunk sizes finished with two chunks.
C8_Witness ==
    /\ batch_op = "upload"
    /\ u_pc[1] = "done"
    /\ up_size[1] = 20971520
    /\ Len(up_puts[1]) = 2

\* C9: within a session upload a chunk is PUT only after every earlier chunk
\* was answered with success; no two PUTs are in flight to one upload URL;
\* every chunk of an upload goes to the URL that upload obtained, and no two
\* uploads of an upload_batch obtain the same URL.
C9_SingleOwnerSession ==
    batch_op = "upload_batch" =>
        /\ \A u \in Units :
              /\ Len(up_puts[u]) =
                    up_acked[u] + (IF u_pc[u] = "chunk_put" THEN 1
                                   ELSE IF up_chunk_status[u] # 0
                                           /\ u_pc[u] = "failed" THEN 1 ELSE 0)
              /\ \A i \in 1..Len(up_puts[u]) : up_puts[u][i].url = up_url[u]
        /\ \A u, v \in Units :
              (u # v /\ up_url[u] # 0) => up_url[u] # up_url[v]
        /\ \A u, v \in Units :
              (u # v /\ u_pc[u] = "chunk_put" /\ u_pc[v] = "chunk_put") =>
                 up_puts[u][Len(up_puts[u])].url # up_puts[v][Len(up_puts[v])].url

\* C9 witness: two uploads of one upload_batch have a chunk PUT in flight at
\* the same time, one of them its second chunk.
C9_Witness ==
    /\ batch_op = "upload_batch"
    /\ \E u, v \in Units :
          /\ u # v
          /\ u_pc[u] = "chunk_put"
          /\ u_pc[v] = "chunk_put"
          /\ Len(up_puts[u]) = 2

\* C10: when a chunk PUT of a session upload is answered non-2xx the upload
\* has failed with UploadError, the failed chunk is the last one sent, no
\* chunk was sent twice, and the progress callback ran only for the chunks
\* answered with success.
C10_ChunkFailureIsFatal ==
    (/\ batch_op = "upload"
     /\ up_chunk_status[1] > 0
     /\ ~(200 <= up_chunk_status[1] /\ up_chunk_status[1] <= 299))
    => LET p == up_puts[1]
       IN  /\ u_pc[1] = "failed"
           /\ u_err[1] = "UploadError"
           /\ Len(p) = up_acked[1] + 1
           /\ \A i, j \in 1..Len(p) : i # j => p[i].start # p[j].start
           /\ Len(up_progress[1]) = (IF up_cb[1] THEN up_acked[1] ELSE 0)
           /\ \A i \in 1..Len(up_progress[1]) :
                 up_progress[1][i][1] <= p[Len(p)].start

\* C10 witness: with a progress callback, the second chunk was answered 404
\* after the first had been reported.
C10_Witness ==
    /\ batch_op = "upload"
    /\ up_cb[1]
    /\ up_chunk_status[1] = 404
    /\ up_acked[1] = 1
    /\ Len(up_progress[1]) = 1
    /\ u_err[1] = "UploadError"

AllTransportErrors(h) == \A i \in 1..Len(h) : h[i] = 0
Max(a, b) == IF a >= b THEN a ELSE b

\* C11: when every attempt of a request fails with a network-level error,
\* exactly max_retries attempts are made, the sleep between attempt k and
\* attempt k+1 (k from 0) is retry_delay * 2^k, and the error raised to the
\* caller is the transport error of the last attempt.
C11_NetworkErrorRetries ==
    (rq_hist # <<>> /\ AllTransportErrors(rq_hist)
        /\ rq_result.exc # "AuthenticationError")
    => /\ Len(rq_hist) <= max_retries
       /\ \A k \in 1..Len(rq_sleeps) : rq_sleeps[k] = retry_delay * 2 ^ (k - 1)
       /\ rq_pc = "loop" => Len(rq_sleeps) = Len(rq_hist)
       /\ rq_pc = "done" =>
            /\ Len(rq_hist) = max_retries
            /\ Len(rq_sleeps) = max_retries - 1
            /\ rq_result.kind = "raise"
            /\ rq_result.exc = "HTTPError"
            /\ rq_result.exc_attempt = max_retries - 1

\* C11 witness: three attempts with retry_delay 2 all failed at the network
\* level; the call slept 2 s and 4 s and raised the third attempt's error.
C11_Witness ==
    /\ rq_pc = "done"
    /\ max_retries = 3
    /\ retry_delay = 2
    /\ rq_hist = <<0, 0, 0>>
    /\ rq_sleeps = <<2, 4>>
    /\ rq_result.exc = "HTTPError"
    /\ rq_result.exc_attempt = 2

\* C12: when attempt number 'attempt' of a request gets 429 or 5xx, the delay
\* before the next attempt is max(Retry-After, retry_delay) * 2^attempt, with
\* Retry-After the header's value when present; so the delay is never shorter
\* than retry_delay * 2^attempt.
C12_DelayIsMaxOfRetryAfterAndDelay ==
    \A k \in 1..Len(rq_sleeps) :
       (rq_hist[k] = 429 \/ rq_hist[k] >= 500) =>
          LET server == IF rq_retry_after[k].kind = "secs"
                        THEN rq_retry_after[k].secs ELSE retry_delay
          IN  /\ rq_sleeps[k] = Max(server, retry_delay) * 2 ^ (k - 1)
              /\ rq_sleeps[k] >= retry_delay * 2 ^ (k - 1)

\* C13: a response whose status is neither 429 nor >= 500 is returned to the
\* caller by the attempt that received it: it is the last attempt of the call
\* and no sleep follows it.
C13_OtherStatusReturnedAtOnce ==
    \A i \in 1..Len(rq_hist) :
       (rq_hist[i] # 0 /\ rq_hist[i] # 429 /\ rq_hist[i] < 500) =>
          /\ i = Len(rq_hist)
          /\ rq_pc = "done"
          /\ rq_result.kind = "response"
          /\ rq_result.status = rq_hist[i]
          /\ Len(rq_sleeps) = i - 1

\* C13 witness: the second attempt received 404 after a 503, with one attempt
\* left; 404 was returned and nothing more was slept.
C13_Witness ==
    /\ rq_pc = "done"
    /\ max_retries = 3
    /\ rq_hist = <<503, 404>>
    /\ rq_result.kind = "response"
    /\ rq_result.status = 404
    /\ Len(rq_sleeps) = 1

\* C14: when the retrying request is exhausted inside upload's
\* session-creation request, by persistent 429/5xx answers or by persistent
\* network errors, the caller receives UploadError, the operation's taxonomy
\* error, never a bare RuntimeError or transport exception.
C14_ExhaustionIsWrapped ==
    (/\ batch_op = "upload"
     /\ u_pc[1] = "failed"
     /\ up_path[1] = "session"
     /\ up_url[1] = 0
     /\ \/ u_attempt[1] = max_retries
        \/ u_last_exception[1] = max_retries - 1)
    => u_err[1] = "UploadError"

\* C15: when the exchange result lacks "access_token", _get_token raises
\* AuthenticationError carrying the result's error_description, else its
\* error, and no step of that call writes the cached token or its expiry.
C15_Step ==
    \A t \in Threads :
      /\ (tk_pc[t] = "exchanging" /\ tk_pc'[t] # "exchanging" /\ ~tk_res'[t].ok) =>
            /\ tk_pc'[t] = "done"
            /\ tk_out'[t] = "AuthenticationError"
            /\ tk_msg'[t] =
                  (IF tk_res'[t].error_description # "absent"
                   THEN tk_res'[t].error_description
                   ELSE IF tk_res'[t].error # "absent"
                   THEN tk_res'[t].error ELSE "Erro desconhecido")
            /\ UNCHANGED <<_access_token, _token_expires_at>>
      /\ (tk_out'[t] = "AuthenticationError" /\ tk_out[t] # "AuthenticationError") =>
            /\ tk_pc[t] = "exchanging"
            /\ ~tk_res'[t].ok
            /\ UNCHANGED <<_access_token, _token_expires_at>>
      /\ (tk_pc[t] = "idle" /\ tk_pc'[t] = "exchanging") =>
            UNCHANGED <<_access_token, _token_expires_at>>
C15_FailedExchangeKeepsCache == [][C15_Step]_vars

\* C15 witness: with a token cached but past its margin, a refresh failed with
\* only "error" in the result; the call raised with that text and the cache
\* still holds the old token and expiry.
C15_Witness ==
    \E t \in Threads :
      /\ tk_pc[t] = "done"
      /\ tk_out[t] = "AuthenticationError"
      /\ tk_msg[t] = "invalid_client"
      /\ _access_token # NoToken
      /\ _token_expires_at > 0
      /\ now >= _token_expires_at - 300

\* C16: every per-file download inside download_batch reports a 404 answer as
\* the package's FileNotFoundError and any other non-2xx answer as
\* DownloadError, never as an unwrapped HTTP status exception.
C16_DownloadErrorsClassified ==
    batch_op = "download_batch" =>
        \A u \in Units :
           u_err[u] \in {"none", "FileNotFoundError", "DownloadError",
                         "AuthenticationError", "HTTPError"}

\* C17: in a batch transfer with a batch progress callback, the callback is
\* invoked exactly once per unit, after that unit's transfer has completed,
\* and the completedCount arguments of successive invocations are 1, 2, ...
\* in that order, with total always N.
C17_CallbackAfterCompletion ==
    (batch_op \in {"download_batch", "upload_batch"} /\ batch_cb) =>
        /\ \A i \in 1..Len(bt_progress) :
              /\ u_pc[bt_progress[i][1]] = "done"
              /\ bt_progress[i][2] = i
              /\ bt_progress[i][3] = batch_n
        /\ \A u \in 1..batch_n :
              u_pc[u] = "done" =>
                 Cardinality({i \in 1..Len(bt_progress) :
                                 bt_progress[i][1] = u}) = 1

\* C18, for every batch operation: when all N units succeed the
\* batch returns exactly N results, the i-th being the i-th unit's.
C18_ReturnsNResults ==
    gather_pc = "returned" =>
        /\ batch_result.kind = "list"
        /\ Len(batch_result.items) = batch_n
        /\ \A i \in 1..batch_n : batch_result.items[i].unit = i

\* C18, by operation: when all N units succeed, download_batch, upload_batch,
\* batch_create_items and batch_update_items return exactly N results, the
\* i-th being the i-th input unit's result whatever order the units completed
\* in; batch_delete_items returns the number of units whose delete returned
\* true.
C18_ResultsInInputOrder ==
    gather_pc = "returned" =>
        /\ \A u \in 1..batch_n : u_pc[u] = "done"
        /\ IF batch_op = "batch_delete_items"
           THEN /\ batch_result.kind = "count"
                /\ batch_result.count =
                      Cardinality({u \in 1..batch_n : u_ret[u] = "True"})
           ELSE /\ batch_result.kind = "list"
                /\ Len(batch_result.items) = batch_n
                /\ \A i \in 1..batch_n :
                      /\ batch_result.items[i].unit = i
                      /\ batch_result.items[i].value = u_ret[i]

\* C18 witness: a download_batch or upload_batch of at least two units
\* returned although unit 2 completed before unit 1.
C18_Witness ==
    /\ gather_pc = "returned"
    /\ batch_n >= 2
    /\ Len(bt_progress) = batch_n
    /\ bt_progress[1][1] = 2
    /\ batch_result.items[1].unit = 1
    /\ batch_result.items[2].unit = 2

\* C19: during an async batch operation no HTTP client object is used by two
\* concurrently running units: two units with a request in flight at the
\* same time use different client objects.
C19_ClientPerUnit ==
    InBatch =>
        \A u, v \in Units :
           (u # v /\ u_pc[u] \in InTransfer /\ u_pc[v] \in InTransfer) =>
              ClientInUse(u) # ClientInUse(v)

\* C20: in a session upload with a progress callback, the callback is invoked
\* exactly once after each successfully sent chunk with (bytesSentSoFar,
\* total): the first argument is the cumulative number of bytes sent,
\* strictly increasing from call to call, the second is always the payload
\* size S, and the last invocation of a finished upload is (S, S).
C20_UploadProgress ==
    (batch_op = "upload" /\ up_cb[1]) =>
        LET g == up_progress[1]
            p == up_puts[1]
        IN  /\ Len(g) = up_acked[1]
            /\ Len(g) <= Len(p)
            /\ \A i \in 1..Len(g) :
                  /\ g[i][1] = p[i].end + 1
                  /\ g[i][2] = up_size[1]
                  /\ i > 1 => g[i][1] > g[i - 1][1]
            /\ (u_pc[1] = "done" /\ up_path[1] = "session") =>
                  /\ Len(g) = Len(p)
                  /\ g[Len(g)] = <<up_size[1], up_size[1]>>
            /\ up_path[1] = "simple" => g = <<>>

\* C20 witness: a 25 MiB upload with a callback finished after the calls
\* (10485760, S), (20971520, S), (S, S).
C20_Witness ==
    /\ batch_op = "upload"
    /\ up_cb[1]
    /\ u_pc[1] = "done"
    /\ up_progress[1] = <<<<10485760, 26214400>>, <<20971520, 26214400>>,
                          <<26214400, 26214400>>>>

\* C27: when the retrying request ends by raising a transport exception, that
\* exception was raised by the final attempt; an exception recorded from an
\* earlier attempt is never raised after a later attempt of the same call
\* received an HTTP response.
C27_RaisedErrorIsFromFinalAttempt ==
    (rq_pc = "done" /\ rq_result.kind = "raise" /\ rq_result.exc = "HTTPError")
    => /\ rq_result.exc_attempt = Len(rq_hist) - 1
       /\ rq_hist[Len(rq_hist)] = 0

\* C30: in every async batch operation a unit gives its permit back on
\* success and on failure alike: no permit is held once all units have
\* settled, and, every transfer terminating, every waiting unit eventually
\* gets a permit and settles, and the batch call eventually returns or raises.
C30_PermitsComeBack ==
    /\ []((InBatch /\ \A u \in 1..batch_n : Settled(u)) => sem = max_concurrent)
    /\ <>[](/\ \A u \in 1..batch_n : Settled(u)
            /\ gather_pc \in {"returned", "raised"})

\* C30 witness: more units than permits, one unit failed and another
\* succeeded, all have settled and every permit is back.
C30_Witness ==
    /\ InBatch
    /\ max_concurrent < batch_n
    /\ \A u \in 1..batch_n : Settled(u)
    /\ \E u \in 1..batch_n : u_pc[u] = "failed"
    /\ \E u \in 1..batch_n : u_pc[u] = "done"
    /\ sem = max_concurrent
    /\ gather_pc = "raised"

\* C21: in a download whose response declares Content-Length T > 0 and
\* delivers exactly T bytes, the progress callback has been invoked once per
\* chunk received so far, the i-th time with (bytes written after chunk i, T),
\* never ahead of what is in the file; the first arguments increase strictly
\* and, once the call has returned, the last invocation is (T, T) after
\* ceil(T / 8192) invocations: 128 for T = 1 MiB.
C21_DownloadProgress ==
    (dl_cb /\ dl_header > 0 /\ dl_header = dl_size /\ dl_pc \in {"streaming", "done"})
    => /\ Len(dl_progress) = dl_chunks
       /\ \A i \in 1..Len(dl_progress) :
            /\ dl_progress[i] = <<Min(i * DOWNLOAD_CHUNK_SIZE, dl_header), dl_header>>
            /\ dl_progress[i][1] <= dl_file
            /\ i > 1 => dl_progress[i - 1][1] < dl_progress[i][1]
       /\ dl_result = Returns =>
            /\ Len(dl_progress) = CeilDiv(dl_header, DOWNLOAD_CHUNK_SIZE)
            /\ dl_progress[Len(dl_progress)] = <<dl_header, dl_header>>
            /\ (dl_header = 1024 * 1024 => Len(dl_progress) = 128)

C21_Witness ==
    /\ dl_pc = "done"
    /\ dl_result = Returns
    /\ dl_cb
    /\ dl_header = 1024 * 1024
    /\ dl_size = dl_header
    /\ Len(dl_progress) = 128
    /\ dl_progress[128] = <<1024 * 1024, 1024 * 1024>>

\* C22: when the response has no Content-Length header, or one of zero, the
\* progress callback is never invoked, every chunk received is in the
\* destination file, and once the body is exhausted the call returns the
\* destination.
C22_NoLengthNoCallback ==
    /\ [](dl_header \in {NoContentLength, 0}
          => /\ dl_progress = <<>>
             /\ dl_file = dl_sent
             /\ (dl_result = Returns => dl_file = dl_size))
    /\ [][(dl_header \in {NoContentLength, 0} /\ dl_pc = "streaming"
             /\ dl_sent = dl_size)
          => dl_result' = Returns]_vars

C22_Witness ==
    /\ dl_pc = "done"
    /\ dl_result = Returns
    /\ dl_cb
    /\ dl_header = NoContentLength
    /\ dl_size = 3 * DOWNLOAD_CHUNK_SIZE
    /\ dl_file = dl_size
    /\ dl_chunks = 3
    /\ dl_progress = <<>>

\* C28: the chunk PUTs, the single-shot PUT and the download GET are each
\* sent at most once per call: no chunk is PUT twice, one GET at most is
\* issued, and the step that receives a 429, a 5xx or a network error for one
\* of them ends the call at once, with no further request and no further
\* round of the retrying request (where the backoff sleeps are).
C28_ChunkFailed ==
    \/ up_chunk_status'[1] = -1
    \/ up_chunk_status'[1] = 429
    \/ up_chunk_status'[1] >= 500

C28_Step ==
    /\ (u_pc[1] = "chunk_put" /\ C28_ChunkFailed)
       => /\ u_pc'[1] = "failed"
          /\ UNCHANGED <<up_puts, u_attempt>>
    /\ u_pc[1] = "simple_put"
       => /\ u_pc'[1] \in {"done", "failed"}
          /\ UNCHANGED <<up_puts, u_attempt>>
    /\ u_pc[1] \in {"done", "failed"} => UNCHANGED <<u_pc, up_puts, u_attempt>>
    /\ dl_pc = "get"
       => /\ dl_pc' \in {"streaming", "done"}
          /\ UNCHANGED dl_gets
    /\ dl_pc \in {"streaming", "done"} => UNCHANGED dl_gets

C28_DirectRequestsSentOnce ==
    /\ [](dl_gets <= 1)
    /\ [](\A i, j \in 1..Len(up_puts[1]) :
            i < j => up_puts[1][i].start < up_puts[1][j].start)
    /\ [][C28_Step]_vars

C28_Witness ==
    /\ batch_op = "upload"
    /\ u_pc[1] = "failed"
    /\ up_chunk_status[1] = 429
    /\ Len(up_puts[1]) = 2
    /\ up_acked[1] = 1

\* C29: for every way the DELETE request can end, delete_item of the sync
\* client and of the async client end the same way (same return value, same
\* exception), and so batch_delete_items gives the same count on both.
C29_SyncAsyncDeleteAgree ==
    /\ \A i \in 1..Min(Len(di_items["sync"]), Len(di_items["async"])) :
          di_items["sync"][i] = di_items["async"][i]
    /\ (di_pc["sync"] = "done" /\ di_pc["async"] = "done")
       => di_result["sync"] = di_result["async"]

\* C23: a call of create_folder whose POST is answered 409 because the
\* folder exists, and whose metadata request the drive answers, returns
\* that folder's metadata and does not raise; two calls in a row on the
\* same path that the drive answers both return, and return the same
\* folder.
C23_Answered(c) == c.post \in {201, 409} /\ c.get \in {-1, 200}

C23_ExistingFolderIsReturned ==
    fd_op = "create_folder"
    => /\ \A i \in 1..Len(fd_calls) :
            (fd_calls[i].post = 409 /\ fd_calls[i].get = 200)
            => /\ fd_calls[i].exc = "none"
               /\ fd_calls[i].meta = FolderMeta(fd_path)
       /\ (Len(fd_calls) = 2 /\ C23_Answered(fd_calls[1])
             /\ C23_Answered(fd_calls[2]))
          => /\ fd_calls[1].exc = "none"
             /\ fd_calls[2].exc = "none"
             /\ fd_calls[2].post = 409
             /\ fd_calls[1].meta = fd_calls[2].meta

C23_Witness ==
    /\ fd_op = "create_folder"
    /\ Len(fd_calls) = 2
    /\ fd_calls[1].post = 201
    /\ fd_calls[2].post = 409
    /\ fd_calls[2].get = 200
    /\ fd_calls[2].exc = "none"
    /\ fd_calls[2].meta = fd_calls[1].meta

\* C24: whenever create_folder_recursive returns, it returns the metadata
\* of the deepest folder of folder_path.
C24_ReturnsDeepestFolder ==
    (fd_op = "create_folder_recursive" /\ fd_out.kind = "return")
    => fd_out.meta = FolderMeta(fd_path)

\* C25: list_all_items requests the pages in cursor order, each one once;
\* all_items is the concatenation, in page order, of the value arrays of
\* the pages read so far; when it returns, every page up to the one
\* without a cursor has been requested exactly once and all their items are
\* returned; and the call ends, the chain of cursors being finite.
RECURSIVE ConcatPages(_, _)
ConcatPages(pages, n) ==
    IF n = 0 THEN <<>> ELSE ConcatPages(pages, n - 1) \o PageValue(pages, n)

C25_PagesRead ==
    IF pg_pc = "done" /\ pg_out.kind = "raise"
    THEN Len(pg_requests) - 1 ELSE Len(pg_requests)

C25_FollowsCursor ==
    /\ [](pg_pc # "none"
          => /\ \A i \in 1..Len(pg_requests) : pg_requests[i] = i
             /\ all_items = ConcatPages(pg_pages, C25_PagesRead)
             /\ (pg_out = Returns
                 => /\ Len(pg_requests) = Len(pg_pages)
                    /\ all_items = ConcatPages(pg_pages, Len(pg_pages))))
    /\ <>(pg_pc = "done")

C25_Witness ==
    /\ pg_out = Returns
    /\ Len(pg_pages) = 3
    /\ pg_requests = <<1, 2, 3>>
    /\ pg_pages[2].has_value = FALSE
    /\ all_items = <<<<1, 1>>, <<1, 2>>, <<3, 1>>>>

\* C26: the constructor raises AuthenticationError, and the caller holds no
\* client, whenever one of client id, client secret, tenant id is set
\* neither by its argument nor by its environment variable (None or empty);
\* when all three are passed as arguments it succeeds and the client holds
\* exactly the values passed, whatever the environment says.
C26_Missing(f) == ~Truthy(ct_params[f]) /\ ~Truthy(ct_env[f])

C26_ConstructorNeedsCredentials ==
    ct_pc = "done"
    => /\ (\E f \in Credentials : C26_Missing(f))
          => /\ ct_out = Raises("AuthenticationError")
             /\ ct_self = NoClient
       /\ (\A f \in Credentials : Truthy(ct_params[f]))
          => /\ ct_out = Returns
             /\ ct_self = ct_params

C26_Witness ==
    /\ ct_pc = "done"
    /\ ct_params = [f \in Credentials |-> IF f = "tenant_id" THEN None ELSE "given"]
    /\ ct_env["tenant_id"] = None
    /\ ct_env["client_id"] = "from-env"
    /\ ct_out = Raises("AuthenticationError")
    /\ ct_self = NoClient
====
